---- MODULE Spec2Model ----
(***************************************************************************)
(* A model of the lock free ring buffer of min-logger                      *)
(* (src/src/min_logger/platform_implementations/lock_free_ring_buffer.cpp) *)
(* and of its readers.  Writers and readers advance one shared-memory      *)
(* access at a time; every other variable is a local of one call.          *)
(*                                                                         *)
(* TLC's integers are 32 bit wide, so the uint32_t counter of the code is  *)
(* modelled at CounterBits bits and the uint64_t read position at twice    *)
(* as many: every mask, rollover and extrapolation of the code is kept,    *)
(* with 2^CounterBits in the place of 2^32.                                *)
(*                                                                         *)
(* The second part models the logger of src/src/min_logger/min_logger.cpp: *)
(* the thread slots, the thread name broadcast and the built-in            *)
(* serializers, whose frames go to min_logger_write of the buffered        *)
(* platform (platform_implementations/buffered_esp32.cpp).                 *)
(***************************************************************************)
EXTENDS Integers, Sequences, FiniteSets, TLC

\* ---------------------------------------------------------------- bounds

\* Width of total_write_size_ / active_writers_ in the model (uint32_t in the code).
CounterBits == 7

\* Number of Write calls a freely scheduled run may start.
MaxWrites == 2

\* Number of calls a freely scheduled reader may make after its construction.
MaxCalls == 2

\* The same for the calls of a single thread.
MaxSingleWrites == 2
MaxSingleCalls == 3

\* Number of Write calls of a run of the writers alone.
MaxWriterWrites == 3

\* Number of Write calls, and of calls of each reader, of a run of two readers.
MaxReadersWrites == 2
MaxReadersCalls == 2

\* The size of the buffer whose read results are copied and offset.
ViewSize == 8

\* ------------------------------------------------------------- constants

Writers == {1, 2}

\* The readers of a run: one, or the two of a run of readers.
ReadersOf(who) == IF who = "readers" THEN {1, 2} ELSE {1}

RECURSIVE Pow2(_)
Pow2(n) == IF n = 0 THEN 1 ELSE 2 * Pow2(n - 1)

\* Number of values of a uint32_t and of a uint64_t, scaled.
U32 == Pow2(CounterBits)
U64 == Pow2(2 * CounterBits)

MASK_LOWER_32BITS == U32 - 1
MASK_UPPER_32BITS == U64 - U32
OVERFLOW_32BITS == MASK_LOWER_32BITS + 1

\* nullptr, for the slices of a read result.
NullPtr == -1

\* A byte of payload is named by the Write call it comes from and its index
\* there: <<writer, call, index>>.  Writer 0 stands for whatever the memory
\* held before the first write.
OldByte(p) == <<0, 0, p>>
\* What a read that races with a memcpy may return.
TornByte == <<0, 0, -1>>

Payload(w, call, len) == [k \in 1..len |-> <<w, call, k>>]

Min(a, b) == IF a < b THEN a ELSE b

Drop(s, n) == SubSeq(s, n + 1, Len(s))
Take(s, n) == SubSeq(s, 1, n)

VARIABLES
    buffer_size,        \* LockFreeRingBuffer::buffer_size_
    buffer,             \* the memory behind LockFreeRingBuffer::buffer_
    total_write_size,   \* LockFreeRingBuffer::total_write_size_
    active_writers,     \* LockFreeRingBuffer::active_writers_
    callbacks,          \* number of calls of data_callback_ so far
    wr,                 \* per writer: the locals of its Write call
    rd,                 \* per reader: the reader object (with an overflow function
                        \* set) and the locals of its call
    gh,                 \* per reader: history of the run, read by the properties only
    stream,             \* history: every byte claimed by a fetch_add, in claim order
    base,               \* history: number of bytes written before the run starts
    caller,             \* who calls: "threads", "single" (one thread), "readers" (one
                        \* thread with two readers) or a scenario
    script,             \* the calls a single threaded caller still has to make
    writes_left,        \* Write calls a freely scheduled run may still start
    calls_left,         \* per reader: calls a freely scheduled run may still start
    serialize_format,   \* min_logger_serialize_format(): the serializer installed
    thread_count,       \* min_logger.cpp: static std::atomic<int> thread_count
    name_broadcast_count,   \* min_logger.cpp: static std::atomic<unsigned>
    last_timestamp_ns,  \* min_logger_micro_binary_serializer: static last_timestamp_ns
    clock,              \* the last value get_time_nanoseconds returned
    th,                 \* per thread: its thread_local variables and the locals of
                        \* its call
    frames,             \* the frames handed to min_logger_write, in order
    ndebug,             \* the build has no assertions (NDEBUG)
    aborted,            \* an assertion has failed
    assigned,           \* history: the threads in the order of their thread_count++
    logs_left,          \* calls the threads of the logger may still start
    call,               \* the last call of a function that has no state: its name,
                        \* its arguments and what it returned
    level,              \* the runtime log level (min_logger_get_level())
    udp                 \* min_logger_udp_client_task: its locals and its position

\* No function has been called.
NoCall == [fn |-> "none"]

\* min_logger_init_udp has not been called.
NoTask == [pc |-> "none"]

\* The variables of the logger.
logger == <<serialize_format, thread_count, name_broadcast_count, last_timestamp_ns,
            clock, th, frames, ndebug, aborted, assigned, logs_left, call, level, udp>>

vars == <<buffer_size, buffer, total_write_size, active_writers, callbacks, wr, rd,
          gh, stream, base, caller, script, writes_left, calls_left, logger>>

\* The variables of the ring buffer, its callers and its readers.
ring == <<buffer_size, buffer, total_write_size, active_writers, callbacks, wr, rd,
          gh, stream, base, caller, script, writes_left, calls_left>>

\* The readers attached to the buffer.
Readers == DOMAIN rd

\* The number of bytes ever written, as a number that never wraps.
TrueTotal == base + Len(stream)

\* ----------------------------------------------------------- the callers

Cmd(op, n) == [op |-> op, n |-> n]

AllIdle ==
    /\ \A w \in Writers : wr[w].pc = "idle"
    /\ \A r \in Readers : rd[r].pc \in {"new", "idle"}

\* A scenario is a single thread that makes the calls of its script.
IsScript == caller \notin {"threads", "readers", "single"}

\* Threads call at any time.  A single thread makes its next call when its
\* last one has returned.
MayCall(c) ==
    \/ caller = "threads"
    \/ caller \in {"single", "readers"} /\ AllIdle
    \/ /\ IsScript
       /\ script # <<>>
       /\ Head(script) = c
       /\ AllIdle

Called == script' = IF IsScript THEN Tail(script) ELSE script

\* The writers that call: a single thread is writer 1.
Calling == IF caller = "threads" THEN Writers ELSE {1}

\* -------------------------------------------------- LockFreeRingBuffer

\* A store that loses the addition.
FetchAddStale(total, len) == total

\* std::atomic<uint32_t>::fetch_add: the new value of the counter.
FetchAdd(total, len) == (total + len) % U32

\* An offset that is one byte off.
BufferOffsetNext(old_size, size) == (old_size + 1) % size

\* buffer_offset = old_size % buffer_size_
BufferOffset(old_size, size) == old_size % size

\* bytes_till_end < data_len: the message wraps around the end of the buffer.
Wraps(bytes_till_end, data_len) == bytes_till_end < data_len

\* assert(data_len < buffer_size_)
WritePrecondition(data_len, size) == data_len < size

\* The locals of a Write call, and of its history: the length asked for, the
\* number of the call, and the writers that were copying when it claimed its
\* range.
IdleWriter ==
    [pc |-> "idle", data |-> <<>>, data_len |-> 0, old_size |-> 0, write_ptr |-> 0,
     bytes_till_end |-> 0, i |-> 0, asked |-> 0, calls |-> 0, over |-> {}]

\* The Write call of w is in one of its memcpys.
Copying(w) == wr[w].pc \in {"memcpy_wrap", "memcpy"}

\* The argument of the call a script makes next.
ScriptArg == IF script # <<>> THEN {Head(script).n} ELSE {}

\* The lengths the callers write (assert(data_len < buffer_size_)): threads
\* write records of 1 or of buffer_size_ - 1 bytes, a single thread any length.
WriteLens ==
    CASE caller \in {"threads", "readers"} -> {1, buffer_size - 1}
      [] caller = "single" -> 1..(buffer_size - 1)
      [] IsScript -> ScriptArg

\* Every reader's history learns that position p of the memory was written.
Dirtied(p) == [r \in Readers |-> [gh[r] EXCEPT !.dirty = @ \cup {p}]]

\* Write, up to active_writers_++.
WriteCall(w, len) ==
    /\ wr[w].pc = "idle"
    /\ WritePrecondition(len, buffer_size)
    /\ MayCall(Cmd("write", len))
    /\ w \in Calling
    /\ ~IsScript => writes_left > 0
    /\ Called
    /\ writes_left' = IF IsScript THEN writes_left ELSE writes_left - 1
    /\ active_writers' = (active_writers + 1) % U32
    /\ wr' = [wr EXCEPT ![w] = [@ EXCEPT !.pc = "fetch_add",
                                         !.calls = @ + 1,
                                         !.data = Payload(w, wr[w].calls + 1, len),
                                         !.data_len = len,
                                         !.asked = len]]
    /\ UNCHANGED <<logger, buffer_size, buffer, total_write_size, callbacks, rd, gh, stream,
                   base, caller, calls_left>>

\* old_size = total_write_size_.fetch_add(data_len), and the locals computed from it.
WriteFetchAdd(w) ==
    /\ wr[w].pc = "fetch_add"
    /\ LET old == total_write_size
           off == BufferOffset(old, buffer_size)
           bte == buffer_size - off
       IN /\ total_write_size' = FetchAdd(total_write_size, wr[w].data_len)
          /\ wr' = [wr EXCEPT ![w] = [@ EXCEPT
                        !.old_size = old,
                        !.write_ptr = off,
                        !.bytes_till_end = bte,
                        !.i = 0,
                        !.over = {x \in Writers \ {w} : Copying(x)},
                        !.pc = IF Wraps(bte, wr[w].data_len) THEN "memcpy_wrap"
                               ELSE IF wr[w].data_len = 0 THEN "dec"
                               ELSE "memcpy"]]
    /\ stream' = stream \o wr[w].data
    /\ UNCHANGED <<logger, buffer_size, buffer, active_writers, callbacks, rd, gh, base, caller,
                   script, writes_left, calls_left>>

\* memcpy(write_ptr, data, bytes_till_end), a byte at a time; after its last
\* byte: write_ptr = buffer_; data += bytes_till_end; data_len -= bytes_till_end.
WriteMemcpyWrap(w) ==
    /\ wr[w].pc = "memcpy_wrap"
    /\ LET s == wr[w]
           p == s.write_ptr + s.i
           last == s.i + 1 = s.bytes_till_end
       IN /\ buffer' = [buffer EXCEPT ![p] = s.data[s.i + 1]]
          /\ gh' = Dirtied(p)
          /\ wr' = [wr EXCEPT ![w] =
                        IF last
                        THEN [s EXCEPT !.write_ptr = 0,
                                       !.data = Drop(s.data, s.bytes_till_end),
                                       !.data_len = s.data_len - s.bytes_till_end,
                                       !.i = 0,
                                       !.pc = "memcpy"]
                        ELSE [s EXCEPT !.i = s.i + 1]]
    /\ UNCHANGED <<logger, buffer_size, total_write_size, active_writers, callbacks, rd, stream,
                   base, caller, script, writes_left, calls_left>>

\* memcpy(write_ptr, data, data_len), a byte at a time.
WriteMemcpy(w) ==
    /\ wr[w].pc = "memcpy"
    /\ LET s == wr[w]
           p == s.write_ptr + s.i
           last == s.i + 1 = s.data_len
       IN /\ buffer' = [buffer EXCEPT ![p] = s.data[s.i + 1]]
          /\ gh' = Dirtied(p)
          /\ wr' = [wr EXCEPT ![w] =
                        IF last THEN [s EXCEPT !.pc = "dec"] ELSE [s EXCEPT !.i = s.i + 1]]
    /\ UNCHANGED <<logger, buffer_size, total_write_size, active_writers, callbacks, rd, stream,
                   base, caller, script, writes_left, calls_left>>

\* A decrement that is lost.
DecrementLost(n) == n

\* active_writers_-- on a uint32_t
Decrement(n) == (n + U32 - 1) % U32

\* A Write that waits, before it reports its copy complete, for the copies
\* that were in progress when it claimed its range.
WriteDecInTurn(w) ==
    /\ wr[w].pc = "dec"
    /\ \A x \in wr[w].over : ~Copying(x)
    /\ active_writers' = (active_writers + U32 - 1) % U32
    /\ wr' = [wr EXCEPT ![w] = [@ EXCEPT !.pc = "callback"]]
    /\ UNCHANGED <<logger, buffer_size, buffer, total_write_size, callbacks, rd, gh, stream,
                   base, caller, script, writes_left, calls_left>>

\* active_writers_--
WriteDec(w) ==
    /\ wr[w].pc = "dec"
    /\ active_writers' = Decrement(active_writers)
    /\ wr' = [wr EXCEPT ![w] = [@ EXCEPT !.pc = "callback"]]
    /\ UNCHANGED <<logger, buffer_size, buffer, total_write_size, callbacks, rd, gh, stream,
                   base, caller, script, writes_left, calls_left>>

\* A Write that returns without calling data_callback_.
WriteCallbackSkipped(w) ==
    /\ wr[w].pc = "callback"
    /\ callbacks' = callbacks
    /\ wr' = [wr EXCEPT ![w] = [IdleWriter EXCEPT !.calls = wr[w].calls]]
    /\ UNCHANGED <<logger, buffer_size, buffer, total_write_size, active_writers, rd, gh, stream,
                   base, caller, script, writes_left, calls_left>>

\* data_callback_(), and the return of Write.
WriteCallback(w) ==
    /\ wr[w].pc = "callback"
    /\ callbacks' = callbacks + 1
    /\ wr' = [wr EXCEPT ![w] = [IdleWriter EXCEPT !.calls = wr[w].calls]]
    /\ UNCHANGED <<logger, buffer_size, buffer, total_write_size, active_writers, rd, gh, stream,
                   base, caller, script, writes_left, calls_left>>

\* --------------------------------------------- LockFreeRingBufferReadResults

EmptyResults == [part1 |-> NullPtr, part1_size |-> 0, part2 |-> NullPtr, part2_size |-> 0]

\* LockFreeRingBufferReadResults::Size
Size(results) == results.part1_size + results.part2_size

\* The positions of the memory a read result refers to, in order.
Positions(results) ==
    [k \in 1..Size(results) |->
        IF k <= results.part1_size THEN results.part1 + (k - 1)
        ELSE results.part2 + (k - results.part1_size - 1)]

\* A Copy that does not take the bytes of part1 off max_size.
CopyNoRest(results, max_size, mem) ==
    LET copy1_size == IF results.part1_size > max_size THEN max_size
                      ELSE results.part1_size
        copy2_size == IF results.part2_size > max_size THEN max_size
                      ELSE results.part2_size
    IN [k \in 1..(copy1_size + copy2_size) |->
            IF k <= copy1_size THEN mem[results.part1 + (k - 1)]
            ELSE mem[results.part2 + (k - copy1_size - 1)]]

\* LockFreeRingBufferReadResults::Copy: the bytes that land in dest, read from
\* the memory mem; their number is the value returned.
Copy(results, max_size, mem) ==
    LET copy1_size == IF results.part1_size > max_size THEN max_size
                      ELSE results.part1_size
        rest == max_size - copy1_size
        copy2_size == IF results.part2_size > rest THEN rest ELSE results.part2_size
    IN [k \in 1..(copy1_size + copy2_size) |->
            IF k <= copy1_size THEN mem[results.part1 + (k - 1)]
            ELSE mem[results.part2 + (k - copy1_size - 1)]]

\* An AddOffset that, past part1, keeps the start of part2.
AddOffsetNoCarry(results, offset) ==
    IF offset > Size(results) THEN EmptyResults
    ELSE IF offset < results.part1_size
    THEN [part1 |-> results.part1 + offset, part1_size |-> results.part1_size - offset,
          part2 |-> results.part2, part2_size |-> results.part2_size]
    ELSE [part1 |-> results.part2,
          part1_size |-> results.part2_size - (offset - results.part1_size),
          part2 |-> NullPtr, part2_size |-> 0]

\* LockFreeRingBufferReadResults::AddOffset
AddOffset(results, offset) ==
    IF offset > Size(results) THEN EmptyResults
    ELSE IF offset < results.part1_size
    THEN [part1 |-> results.part1 + offset, part1_size |-> results.part1_size - offset,
          part2 |-> results.part2, part2_size |-> results.part2_size]
    ELSE [part1 |-> results.part2 + (offset - results.part1_size),
          part1_size |-> results.part2_size - (offset - results.part1_size),
          part2 |-> NullPtr, part2_size |-> 0]

\* ---------------------------------------------- LockFreeRingBufferReader

\* An extrapolation that returns the 32 bit counter as it is.
ExtrapolateTotalLowOnly(read_tail, total32) == total32

\* An extrapolation that never adds a rollover.
ExtrapolateTotalNoRollover(read_tail, total32) ==
    ((read_tail - (read_tail % U32)) + total32) % U64

\* GetWriteTotal, lines 170-176: the 32 bit counter promoted to 64 bits with
\* the upper half of read_tail_, one rollover added when the counter lies
\* below the lower half of read_tail_.
ExtrapolateTotal(read_tail, total32) ==
    LET tail_lower_32bit == read_tail % U32
        tail_upper_32bit == read_tail - tail_lower_32bit
        upper == IF total32 < tail_lower_32bit
                 THEN (tail_upper_32bit + OVERFLOW_32BITS) % U64
                 ELSE tail_upper_32bit
    IN (upper + total32) % U64

\* A GetWriteTotal that does not look at active_writers_.
WritersIdleUnchecked(writers) == TRUE

\* GetWriteTotal, line 169, first half: no write is in progress.
WritersIdle(writers) == writers = 0

\* GetWriteTotal, line 169, second half: the counter did not move meanwhile.
TotalStable(total_now, sampled) == total_now = sampled

\* A difference that is one byte short.
NewBytesShort(cur_total, read_tail) == (cur_total - read_tail - 1 + U64) % U64

\* *new_bytes = cur_total - read_tail_ (uint64_t arithmetic)
NewBytes(cur_total, read_tail) == (cur_total - read_tail + U64) % U64

\* Overflow tests with a wrong limit.
IsOverflowTwice(new_bytes, size) == new_bytes > 2 * size
IsOverflowLate(new_bytes, size) == new_bytes > size + 1

\* GetNewBytesResetIfOverflow, line 153
IsOverflow(new_bytes, size) == new_bytes > size

\* A PeekAvailable that hands out the two parts of wrapped data in the wrong order.
PeekResultsReversed(read_tail, new_bytes, size) ==
    LET buffer_offset == read_tail % size
        bytes_till_end == size - buffer_offset
    IN IF bytes_till_end < new_bytes
       THEN [part1 |-> 0, part1_size |-> new_bytes - bytes_till_end,
             part2 |-> buffer_offset, part2_size |-> bytes_till_end]
       ELSE [part1 |-> buffer_offset, part1_size |-> new_bytes,
             part2 |-> NullPtr, part2_size |-> 0]

\* PeekAvailable, lines 105-116
PeekResults(read_tail, new_bytes, size) ==
    LET buffer_offset == read_tail % size
        bytes_till_end == size - buffer_offset
    IN IF bytes_till_end < new_bytes
       THEN [part1 |-> buffer_offset, part1_size |-> bytes_till_end,
             part2 |-> 0, part2_size |-> new_bytes - bytes_till_end]
       ELSE [part1 |-> buffer_offset, part1_size |-> new_bytes,
             part2 |-> NullPtr, part2_size |-> 0]

\* A MarkRead that marks every available byte read, whatever it was asked.
MarkReadTailAll(read_tail, num_bytes, new_bytes) == (read_tail + new_bytes) % U64

\* A MarkRead that leaves read_tail_ where it is.
MarkReadTailKept(read_tail, num_bytes, new_bytes) == read_tail

\* MarkRead, lines 126-130: the clamped new_bytes is computed and not used.
MarkReadTail(read_tail, num_bytes, new_bytes) ==
    LET clamped == IF new_bytes > num_bytes THEN num_bytes ELSE new_bytes
    IN (read_tail + num_bytes) % U64

NewReader ==
    [pc |-> "new", op |-> "none", n |-> 0, total_write_size |-> 0, read_tail |-> 0,
     results |-> EmptyResults, ok |-> TRUE, size_read |-> 0, dest |-> <<>>, cb |-> <<>>]

\* The history of a reader:
\*   start     bytes ever written when the reader was constructed
\*   origin    start less the read_tail_ the constructor set (a reader counts
\*             from the last rollover of the counter before its construction)
\*   mark_at   bytes ever written at its last MarkRead that returned true
\*   peek_at   bytes ever written at its last PeekAvailable that returned true
\*   reset_at  bytes ever written when its last call returned false, else -1
\*   pending   a PeekAvailable returned true and no MarkRead came after it
\*   dirty     the positions of the memory written since that PeekAvailable
\*   peeked    the result of that PeekAvailable, the bytes it referred to and
\*             the number of bytes of the PeekAvailable before it, when that
\*             one returned true with no MarkRead after it (else -1)
\*   waited    GetWriteTotal started over in the current call
\*   copied    the bytes copied out of the last peeked result, not yet marked
\*   consumed  the copied bytes that a MarkRead returning true has covered
\*   lost      some call returned false
\*   skipped   some MarkRead covered bytes that were not copied out
\*   whole     every MarkRead moved read_tail_ to the end of a write
NoPeek == [results |-> EmptyResults, bytes |-> <<>>, first |-> -1]

NewHistory ==
    [start |-> 0, origin |-> 0, mark_at |-> 0, peek_at |-> 0, reset_at |-> -1, pending |-> FALSE,
     dirty |-> {}, waited |-> FALSE, copied |-> <<>>, consumed |-> <<>>,
     lost |-> FALSE, skipped |-> FALSE, whole |-> TRUE, peeked |-> NoPeek]

\* The totals at which one write ends and the next starts.
Boundaries ==
    {base} \cup {base + i : i \in {j \in 1..Len(stream) :
                                   j = Len(stream) \/ stream[j + 1][3] = 1}}

\* The last call of the reader was a PeekAvailable that returned true.
Peeked(r) == rd[r].pc = "idle" /\ rd[r].op = "peek" /\ rd[r].ok

\* The arguments the callers pass.  Threads mark what they just peeked and
\* read whole buffers; a single thread also marks one byte and more bytes
\* than there are, with or without a peek, and reads less than there is.
MarkArgs(r) ==
    CASE caller \in {"threads", "readers"} ->
            IF Peeked(r) THEN {Size(rd[r].results)} ELSE {}
      [] caller = "single" -> {1, Size(rd[r].results), U32 - 1}
      [] IsScript -> ScriptArg \cup {Size(rd[r].results)}
ReadArgs ==
    CASE caller \in {"threads", "readers"} -> {buffer_size}
      [] caller = "single" -> {0, 2}
      [] IsScript -> ScriptArg
CopyArgs == IF IsScript THEN ScriptArg ELSE {buffer_size}

\* A call of the constructor, PeekAvailable, MarkRead or Read, up to the first
\* total_write_size = buffer_->total_write_size_ of GetWriteTotal.
ReaderCall(r, op, n) ==
    /\ IF op = "ctor" THEN rd[r].pc = "new" ELSE rd[r].pc = "idle"
    /\ \/ MayCall(Cmd(op, n))
       \/ op = "mark" /\ n = Size(rd[r].results) /\ MayCall(Cmd("mark_size", 0))
    /\ Called
    /\ rd' = [rd EXCEPT ![r] =
                IF op = "read" /\ n = 0
                THEN [@ EXCEPT !.op = op, !.n = n, !.size_read = 0, !.ok = TRUE,
                               !.cb = <<>>]
                ELSE [@ EXCEPT !.op = op, !.n = n, !.cb = <<>>,
                               !.size_read = IF op = "read" THEN 0 ELSE @,
                               !.results = IF op \in {"peek", "read"}
                                           THEN EmptyResults ELSE @,
                               !.total_write_size = total_write_size,
                               !.pc = "check_active"]]
    /\ ~IsScript /\ op # "ctor" => calls_left[r] > 0
    /\ calls_left' = IF ~IsScript /\ op # "ctor"
                     THEN [calls_left EXCEPT ![r] = @ - 1]
                     ELSE calls_left
    /\ gh' = [gh EXCEPT ![r].waited = FALSE]
    /\ UNCHANGED <<logger, buffer_size, buffer, total_write_size, active_writers, callbacks, wr,
                   stream, base, caller, writes_left>>

\* GetWriteTotal: buffer_->active_writers_ == 0, or sleep and start over.
ReaderCheckActive(r) ==
    /\ rd[r].pc = "check_active"
    /\ rd' = [rd EXCEPT ![r].pc = IF WritersIdle(active_writers) THEN "recheck"
                                  ELSE "sample"]
    /\ gh' = [gh EXCEPT ![r].waited = @ \/ ~WritersIdle(active_writers)]
    /\ UNCHANGED <<logger, buffer_size, buffer, total_write_size, active_writers, callbacks, wr,
                   stream, base, caller, script, writes_left, calls_left>>

\* GetWriteTotal: total_write_size = buffer_->total_write_size_, after a sleep.
ReaderSample(r) ==
    /\ rd[r].pc = "sample"
    /\ rd' = [rd EXCEPT ![r].total_write_size = total_write_size,
                        ![r].pc = "check_active"]
    /\ UNCHANGED <<logger, buffer_size, buffer, total_write_size, active_writers, callbacks, wr,
                   gh, stream, base, caller, script, writes_left, calls_left>>

\* The positions of the memory a Write call in its memcpy has claimed.
ClaimedPositions(w) ==
    {(wr[w].old_size + k) % buffer_size : k \in 0..(wr[w].asked - 1)}

\* The positions a memcpy in progress writes: reading one of them is a data race.
Racing == UNION {ClaimedPositions(w) : w \in {x \in Writers : Copying(x)}}

\* What a copy out of the memory may see: a byte that races with a memcpy is
\* the byte in the memory or a torn one.
Seen(torn) == [p \in 0..(buffer_size - 1) |->
                  IF torn /\ p \in Racing THEN TornByte ELSE buffer[p]]

\* GetWriteTotal: buffer_->total_write_size_ == total_write_size, or sleep and
\* start over; then the rest of the call, which reads and writes the reader
\* and its caller's memory only.
ReaderRecheck(r) ==
    /\ rd[r].pc = "recheck"
    /\ LET s == rd[r]
           h == gh[r]
           cur_total == ExtrapolateTotal(s.read_tail, s.total_write_size)
           new_bytes == NewBytes(cur_total, s.read_tail)
           num_bytes == IF s.op = "read_mark" THEN s.size_read ELSE s.n
       IN IF ~TotalStable(total_write_size, s.total_write_size)
          THEN /\ rd' = [rd EXCEPT ![r].pc = "sample"]
               /\ gh' = [gh EXCEPT ![r].waited = TRUE]
          ELSE IF s.op = "ctor"
          THEN \* read_tail_ = GetWriteTotal()
               /\ rd' = [rd EXCEPT ![r] = [s EXCEPT !.read_tail = cur_total,
                                                    !.total_write_size = 0,
                                                    !.pc = "idle"]]
               /\ gh' = [gh EXCEPT ![r] = [h EXCEPT !.start = TrueTotal,
                                                    !.origin = TrueTotal - cur_total,
                                                    !.mark_at = TrueTotal,
                                                    !.peek_at = TrueTotal,
                                                    !.dirty = {}]]
          ELSE IF IsOverflow(new_bytes, buffer_size)
          THEN \* GetNewBytesResetIfOverflow, lines 154-159
               /\ rd' = [rd EXCEPT ![r] =
                            [s EXCEPT !.cb = Append(@, <<new_bytes, buffer_size>>),
                                      !.read_tail = cur_total,
                                      !.ok = FALSE,
                                      !.total_write_size = 0,
                                      !.pc = "idle"]]
               /\ gh' = [gh EXCEPT ![r] = [h EXCEPT !.lost = TRUE,
                                                    !.copied = <<>>,
                                                    !.pending = FALSE,
                                                    !.peeked = NoPeek,
                                                    !.reset_at = TrueTotal]]
          ELSE IF s.op \in {"peek", "read"}
          THEN /\ rd' = [rd EXCEPT ![r] =
                            [s EXCEPT !.results = PeekResults(s.read_tail, new_bytes,
                                                              buffer_size),
                                      !.ok = TRUE,
                                      !.total_write_size = 0,
                                      !.pc = IF s.op = "read" THEN "copy" ELSE "idle"]]
               /\ gh' = [gh EXCEPT ![r] = [h EXCEPT !.dirty = {},
                                                    !.pending = TRUE,
                                                    !.peeked =
                                                        LET res == PeekResults(s.read_tail,
                                                                new_bytes, buffer_size)
                                                        IN [results |-> res,
                                                            bytes |-> Copy(res, Size(res),
                                                                           buffer),
                                                            first |-> IF h.pending
                                                                      THEN Len(h.peeked.bytes)
                                                                      ELSE -1],
                                                    !.peek_at = TrueTotal,
                                                    !.reset_at = -1]]
          ELSE \* MarkRead
               /\ rd' = [rd EXCEPT ![r] =
                            [s EXCEPT !.read_tail = MarkReadTail(s.read_tail, num_bytes,
                                                                 new_bytes),
                                      !.ok = TRUE,
                                      !.total_write_size = 0,
                                      !.pc = "idle"]]
               /\ gh' = [gh EXCEPT ![r] =
                            [h EXCEPT !.mark_at = TrueTotal,
                                      !.pending = FALSE,
                                      !.peeked = NoPeek,
                                      !.reset_at = -1,
                                      !.whole = @ /\ (h.origin + s.read_tail + num_bytes)
                                                        \in Boundaries,
                                      !.skipped = @ \/ num_bytes > Len(h.copied),
                                      !.consumed = @ \o Take(h.copied,
                                                        Min(num_bytes, Len(h.copied))),
                                      !.copied = Drop(h.copied,
                                                      Min(num_bytes, Len(h.copied)))]]
    /\ UNCHANGED <<logger, buffer_size, buffer, total_write_size, active_writers, callbacks, wr,
                   stream, base, caller, script, writes_left, calls_left>>

\* results.Copy(dest, max_size), by a caller that holds the result of a peek.
ReaderCopy(r, max_size) ==
    /\ rd[r].pc = "idle"
    /\ rd[r].op = "peek"
    /\ rd[r].ok
    /\ MayCall(Cmd("copy", max_size))
    /\ Called
    /\ \E torn \in {t \in BOOLEAN : t => Racing # {}} :
        LET got == Copy(rd[r].results, max_size, Seen(torn))
        IN /\ rd' = [rd EXCEPT ![r].dest = got]
           /\ gh' = [gh EXCEPT ![r].copied = got]
    /\ UNCHANGED <<logger, buffer_size, buffer, total_write_size, active_writers, callbacks, wr,
                   stream, base, caller, writes_left, calls_left>>

\* A Read that clears the bytes it copies out of the memory.
ReaderReadCopyClearing(r) ==
    /\ rd[r].pc = "copy"
    /\ LET got == Copy(rd[r].results, rd[r].n, buffer)
           taken == {Positions(rd[r].results)[k] : k \in 1..Len(got)}
       IN /\ rd' = [rd EXCEPT ![r].dest = got,
                              ![r].size_read = Len(got),
                              ![r].op = "read_mark",
                              ![r].pc = "sample"]
          /\ gh' = [gh EXCEPT ![r].copied = got]
          /\ buffer' = [p \in DOMAIN buffer |->
                            IF p \in taken THEN OldByte(p) ELSE buffer[p]]
    /\ UNCHANGED <<logger, buffer_size, total_write_size, active_writers, callbacks, wr,
                   stream, base, caller, script, writes_left, calls_left>>

\* Read, line 145: *size_read = results.Copy(dest, max_size); then MarkRead(*size_read)
\* starts.
ReaderReadCopy(r) ==
    /\ rd[r].pc = "copy"
    /\ \E torn \in {t \in BOOLEAN : t => Racing # {}} :
        LET got == Copy(rd[r].results, rd[r].n, Seen(torn))
        IN /\ rd' = [rd EXCEPT ![r].dest = got,
                               ![r].size_read = Len(got),
                               ![r].op = "read_mark",
                               ![r].pc = "sample"]
           /\ gh' = [gh EXCEPT ![r].copied = got]
    /\ UNCHANGED <<logger, buffer_size, buffer, total_write_size, active_writers, callbacks, wr,
                   stream, base, caller, script, writes_left, calls_left>>

\* ------------------------------------------------------------ the logger

\* Number of calls (of a log macro, of send_thread_name_if_needed or of
\* min_logger_write_thread_names) the threads of the logger make.
MaxLogs == 2

\* The largest time the clock reaches.
MaxClock == 2

Threads == {1, 2}

\* A message id, as its upper and its lower 16 bits.
THREAD_NAME_MSG_ID == <<65535, 65280>>
PTHREAD_NAME_LEN == 16

\* The message id a log macro passes.
UserMsgId == <<4660, 22136>>

\* sizeof(BinaryMsgHeader), packed: sync 2, payload_len 1, thread_id 1,
\* msg_id 4, timestamp 8.
SizeofBinaryMsgHeader == 16

\* sizeof(MicroMessage), packed: truncated_id 2, and 4 + 2 + 10 bits.
SizeofMicroMessage == 4

\* _MAX_MSG_SIZE of the binary and of the text serializer.
MAX_MSG_SIZE == 256

\* The size of the ring buffer of the buffered platform.
MIN_LOGGER_BUFFER_SIZE == 256

\* BinaryMsgHeader::SYNC, 0xFAAF
SYNC == 64175

\* The payloads the callers log, as <<payload_type, payload_len, characters
\* the payload prints as>>: none, short and long strings, and a uint64_t of
\* 20 digits.
Payloads ==
    {<<"NONE", 0, 0>>, <<"STRING", 5, 5>>, <<"STRING", 239, 239>>,
     <<"STRING", 240, 240>>, <<"STRING", 300, 300>>, <<"U64", 8, 20>>}

\* The lengths min_logger_get_thread_name returns: no name, or one that
\* fills the buffer up to its terminator.
NameLens == {0, PTHREAD_NAME_LEN - 1}

Formats == {"text", "binary", "micro"}

\* The log levels.
MIN_LOGGER_DEBUG == 10
MIN_LOGGER_INFO == 20
MIN_LOGGER_WARN == 30
MIN_LOGGER_ERROR == 40
MIN_LOGGER_CRITICAL == 50

Levels == {MIN_LOGGER_DEBUG, MIN_LOGGER_INFO, MIN_LOGGER_WARN, MIN_LOGGER_ERROR,
           MIN_LOGGER_CRITICAL}

\* The level of the compile-time filter and the runtime level at the start.
MIN_LOGGER_MIN_LEVEL == MIN_LOGGER_INFO
MIN_LOGGER_DEFAULT_LEVEL == MIN_LOGGER_WARN

\* The thread_local variables of a thread, the arguments and locals of the
\* serializer it has called, and for the history whether the thread had yet
\* to send its name when a log macro called the serializer (owed), the
\* number of frames written before that call (since) and the level its last
\* log macro was given.
IdleThread ==
    [pc |-> "idle", local_thread_idx |-> -1, local_name_broadcast_count |-> 0,
     msg_id |-> <<0, 0>>, payload_type |-> "NONE", payload_len |-> 0, text_len |-> 0,
     now |-> 0, elapsed_ns |-> 0, thread_id |-> 0, owed |-> FALSE, since |-> 0,
     level |-> 0]

\* A thread that has returned keeps its thread_local variables.
Returned(s) ==
    [IdleThread EXCEPT !.local_thread_idx = s.local_thread_idx,
                       !.local_name_broadcast_count = s.local_name_broadcast_count]

RECURSIVE Digits(_)
\* The number of decimal digits of n.
Digits(n) == IF n < 10 THEN 1 ELSE 1 + Digits(n \div 10)

\* A uint64_t of nanoseconds is kept as its NsDigits digits in base 1000, the
\* lowest first (2^64 < 1000^7), as TLC's integers end below 10^12.
NsDigits == 7

RECURSIVE Thousands(_, _)
\* The lowest k digits in base 1000 of n.
Thousands(n, k) == IF k = 0 THEN <<>> ELSE <<n % 1000>> \o Thousands(n \div 1000, k - 1)

\* value >= 1000
AtLeast1000(value) == \E i \in 2..Len(value) : value[i] # 0

\* value /= 1000
DivideBy1000(value) == Tail(value) \o <<0>>

\* A conversion that does not cap the seconds.
convertNanosecondsNoCap(ns) ==
    IF AtLeast1000(ns)
    THEN IF AtLeast1000(DivideBy1000(ns))
         THEN IF AtLeast1000(DivideBy1000(DivideBy1000(ns)))
              THEN <<3, DivideBy1000(DivideBy1000(DivideBy1000(ns)))[1]>>
              ELSE <<2, DivideBy1000(DivideBy1000(ns))[1]>>
         ELSE <<1, DivideBy1000(ns)[1]>>
    ELSE <<0, ns[1]>>

\* convertNanoseconds: <<scale, value>>
convertNanoseconds(ns) ==
    IF AtLeast1000(ns)
    THEN LET us == DivideBy1000(ns)
         IN IF AtLeast1000(us)
            THEN LET ms == DivideBy1000(us)
                 IN IF AtLeast1000(ms)
                    THEN LET sec == DivideBy1000(ms)
                         IN <<3, IF AtLeast1000(sec) THEN 999 ELSE sec[1]>>
                    ELSE <<2, ms[1]>>
            ELSE <<1, us[1]>>
    ELSE <<0, ns[1]>>

\* A payload limit that forgets the header.
MaxPayloadSizeNoHeader(max_msg_size, header_size) == max_msg_size

\* _MAX_PAYLOAD_SIZE = _MAX_MSG_SIZE - sizeof(BinaryMsgHeader)
MaxPayloadSize(max_msg_size, header_size) == max_msg_size - header_size

\* payload_len = (payload_len > _MAX_PAYLOAD_SIZE) ? _MAX_PAYLOAD_SIZE : payload_len
ClipPayloadLen(payload_len, max_payload_size) ==
    IF payload_len > max_payload_size THEN max_payload_size ELSE payload_len

\* min_logger_default_binary_serializer: the header (its payload_len and
\* thread_id are uint8_t), the number of payload bytes copied behind it and
\* the length handed to min_logger_write.
BinaryFrame(t, s) ==
    LET payload_len == ClipPayloadLen(s.payload_len,
                           MaxPayloadSize(MAX_MSG_SIZE, SizeofBinaryMsgHeader))
    IN [by |-> t, format |-> "binary", owed |-> s.owed, since |-> s.since,
        sync |-> SYNC,
        payload_len |-> payload_len % 256,
        thread_id |-> s.thread_id % 256,
        msg_id |-> s.msg_id,
        timestamp |-> s.now,
        asked |-> s.payload_len,
        payload |-> payload_len,
        len |-> SizeofBinaryMsgHeader + payload_len]

\* payload_to_string_end: the characters written at buffer, the '\n' among
\* them, into a buffer of size bytes (buffer_size in the code).
PayloadToStringEnd(size, payload_type, payload_len, text_len) ==
    IF size < 2 THEN 0
    ELSE LET payload_buffer_size == size - 1
             printed == IF payload_len > 0 /\ payload_type # "NONE" THEN text_len ELSE 0
             snprintf_size == IF printed > payload_buffer_size - 1
                              THEN payload_buffer_size - 1 ELSE printed
         IN snprintf_size + 1

\* min_logger_default_text_serializer: "$%.6f,%08X,%zu", a ',' before a
\* payload, the payload and '\n'; strlen(msg_buffer) is handed to
\* min_logger_write.
TextFrame(t, s) ==
    LET head == 1 + Digits(s.now \div 1000000000) + 1 + 6 + 1 + 8 + 1 + Digits(s.thread_id)
        offset == IF s.payload_len > 0 /\ s.payload_type # "NONE" THEN head + 1 ELSE head
    IN [by |-> t, format |-> "text", owed |-> s.owed, since |-> s.since,
        msg_id |-> s.msg_id,
        thread_id |-> s.thread_id,
        len |-> offset + PayloadToStringEnd(MAX_MSG_SIZE - offset, s.payload_type,
                                            s.payload_len, s.text_len)]

\* min_logger_micro_binary_serializer: MicroMessage(msg_id, thread, scale, value),
\* of which sizeof(message) bytes are handed to min_logger_write; elapsed_ns,
\* payload_type and asked keep the local and the arguments for the history.
MicroFrame(t, s) ==
    LET delta == convertNanoseconds(Thousands(s.elapsed_ns, NsDigits))
    IN [by |-> t, format |-> "micro", owed |-> s.owed, since |-> s.since,
        msg_id |-> s.msg_id,
        truncated_id |-> s.msg_id[2],
        thread_id |-> s.thread_id % 16,
        time_scale |-> delta[1] % 4,
        time_value |-> delta[2] % 1024,
        elapsed_ns |-> s.elapsed_ns,
        payload_type |-> s.payload_type,
        asked |-> s.payload_len,
        len |-> SizeofMicroMessage]

\* The frame the installed serializer hands to min_logger_write.
Frame(t) ==
    CASE serialize_format = "text" -> TextFrame(t, th[t])
      [] serialize_format = "binary" -> BinaryFrame(t, th[t])
      [] serialize_format = "micro" -> MicroFrame(t, th[t])

\* A thread of a program that runs starts a call.
MayLog(t) == th[t].pc = "idle" /\ ~aborted /\ logs_left > 0

\* min_logger_write_thread_names: name_broadcast_count++ on an unsigned
WriteThreadNames(t) ==
    /\ MayLog(t)
    /\ name_broadcast_count' = (name_broadcast_count + 1) % U32
    /\ logs_left' = logs_left - 1
    /\ UNCHANGED <<ring, udp, call, level, serialize_format, thread_count, last_timestamp_ns,
                   clock, th, frames, ndebug, aborted, assigned>>

\* The condition of the log macros:
\* MIN_LOGGER_MIN_LEVEL >= level && min_logger_get_level() >= level
LevelPasses(min_level, runtime_level, msg_level) ==
    min_level >= msg_level /\ runtime_level >= msg_level

\* A log macro of level msg_level: when its condition holds, the call of the
\* serializer, up to the serializer's read of the clock.
LogCall(t, msg_level, payload) ==
    /\ MayLog(t)
    /\ logs_left' = logs_left - 1
    /\ th' = [th EXCEPT ![t] =
                IF LevelPasses(MIN_LOGGER_MIN_LEVEL, level, msg_level)
                THEN [@ EXCEPT
                        !.pc = "time",
                        !.msg_id = UserMsgId,
                        !.payload_type = payload[1],
                        !.payload_len = payload[2],
                        !.text_len = payload[3],
                        !.owed = th[t].local_name_broadcast_count # name_broadcast_count,
                        !.since = Len(frames),
                        !.level = msg_level]
                ELSE [@ EXCEPT !.level = msg_level]]
    /\ UNCHANGED <<ring, udp, call, level, serialize_format, thread_count, name_broadcast_count,
                   last_timestamp_ns, clock, frames, ndebug, aborted, assigned>>

\* min_logger_set_level
SetLevel(runtime_level) ==
    /\ ~aborted
    /\ level' = runtime_level
    /\ UNCHANGED <<ring, udp, call, serialize_format, thread_count, name_broadcast_count,
                   last_timestamp_ns, clock, th, frames, ndebug, aborted, assigned,
                   logs_left>>

\* send_thread_name_if_needed, called by the program: line 75.
SendThreadNameIfNeeded(t) ==
    /\ MayLog(t)
    /\ logs_left' = logs_left - 1
    /\ th' = [th EXCEPT ![t].pc =
                IF th[t].local_name_broadcast_count # name_broadcast_count
                THEN "name" ELSE "idle"]
    /\ UNCHANGED <<ring, udp, call, level, serialize_format, thread_count, name_broadcast_count,
                   last_timestamp_ns, clock, frames, ndebug, aborted, assigned>>

\* send_thread_name_if_needed, lines 76-80: the second read of
\* name_broadcast_count, min_logger_get_thread_name, and the call of the
\* serializer with the name.
SendThreadName(t, name_len) ==
    /\ th[t].pc = "name"
    /\ th' = [th EXCEPT ![t] = [@ EXCEPT
                !.local_name_broadcast_count = name_broadcast_count,
                !.pc = "time",
                !.msg_id = THREAD_NAME_MSG_ID,
                !.payload_type = "STRING",
                !.payload_len = name_len,
                !.text_len = name_len,
                !.owed = FALSE,
                !.since = Len(frames)]]
    /\ UNCHANGED <<ring, udp, call, level, serialize_format, thread_count, name_broadcast_count,
                   last_timestamp_ns, clock, frames, ndebug, aborted, assigned, logs_left>>

\* get_time_nanoseconds(): a clock that never goes back.
SerializerTime(t, dt) ==
    /\ th[t].pc = "time"
    /\ clock + dt <= MaxClock
    /\ clock' = clock + dt
    /\ th' = [th EXCEPT ![t].now = clock + dt,
                        ![t].pc = IF serialize_format = "micro" THEN "exchange"
                                  ELSE "thread_idx"]
    /\ UNCHANGED <<ring, udp, call, level, serialize_format, thread_count, name_broadcast_count,
                   last_timestamp_ns, frames, ndebug, aborted, assigned, logs_left>>

\* A difference of two uint64_t that is taken whatever their order.
ElapsedWrapped(current_timestamp_ns, local_last_timestamp_ns) ==
    (current_timestamp_ns - local_last_timestamp_ns + U64) % U64

\* min_logger_micro_binary_serializer, lines 221-225: elapsed_ns
Elapsed(current_timestamp_ns, local_last_timestamp_ns) ==
    IF local_last_timestamp_ns # 0 /\ current_timestamp_ns > local_last_timestamp_ns
    THEN current_timestamp_ns - local_last_timestamp_ns
    ELSE 0

\* min_logger_micro_binary_serializer, lines 220-225:
\* last_timestamp_ns.exchange(current_timestamp_ns) and elapsed_ns.
SerializerExchange(t) ==
    /\ th[t].pc = "exchange"
    /\ LET current_timestamp_ns == th[t].now
           local_last_timestamp_ns == last_timestamp_ns
       IN /\ last_timestamp_ns' = current_timestamp_ns
          /\ th' = [th EXCEPT
                ![t].elapsed_ns = Elapsed(current_timestamp_ns, local_last_timestamp_ns),
                ![t].pc = "thread_idx"]
    /\ UNCHANGED <<ring, udp, call, level, serialize_format, thread_count,
                   name_broadcast_count, clock, frames, ndebug, aborted, assigned, logs_left>>

\* A thread_count++ that is not atomic and loses the increment.
ThreadCountStale(count) == count

\* thread_count++ on a std::atomic<int>: the new value.
ThreadCountNext(count) == count + 1

\* get_thread_idx
SerializerThreadIdx(t) ==
    /\ th[t].pc = "thread_idx"
    /\ IF th[t].local_thread_idx = -1
       THEN /\ thread_count' = ThreadCountNext(thread_count)
            /\ assigned' = Append(assigned, t)
            /\ th' = [th EXCEPT ![t].local_thread_idx = thread_count,
                                ![t].thread_id = thread_count,
                                ![t].pc = "write"]
       ELSE /\ th' = [th EXCEPT ![t].thread_id = th[t].local_thread_idx,
                                ![t].pc = "write"]
            /\ UNCHANGED <<thread_count, assigned>>
    /\ UNCHANGED <<ring, udp, call, level, serialize_format, name_broadcast_count,
                   last_timestamp_ns, clock, frames, ndebug, aborted, logs_left>>

\* min_logger_write of the buffered platform: ring_buffer.Write(msg, len_bytes)
\* on the buffer of MIN_LOGGER_BUFFER_SIZE bytes, whose assertion ends a
\* program built with assertions; then the serializer returns, and with it
\* send_thread_name_if_needed.  What Write does with the bytes is the subject
\* of the first part.
SerializerWrite(t) ==
    /\ th[t].pc = "write"
    /\ frames' = Append(frames, Frame(t))
    /\ aborted' = (~ndebug /\ ~WritePrecondition(Frame(t).len, MIN_LOGGER_BUFFER_SIZE))
    /\ th' = [th EXCEPT ![t] = Returned(th[t])]
    /\ UNCHANGED <<ring, udp, call, level, serialize_format, thread_count, name_broadcast_count,
                   last_timestamp_ns, clock, ndebug, assigned, logs_left>>

\* The logger before its first call, with the serializer format and the
\* calls its threads make.
InitLoggerWith(format, logs) ==
    /\ serialize_format = format
    /\ thread_count = 0
    /\ name_broadcast_count = 0
    /\ last_timestamp_ns = 0
    /\ clock = 0
    /\ th = [t \in Threads |-> IdleThread]
    /\ frames = <<>>
    /\ ndebug \in BOOLEAN
    /\ aborted = FALSE
    /\ assigned = <<>>
    /\ logs_left = logs
    /\ call = NoCall
    /\ level = MIN_LOGGER_DEFAULT_LEVEL
    /\ udp = NoTask

\* ------------------------------------------------------ the specifications

\* The buffer of the logger is used by the threads of the logger only.
InitRing(size, total0, who, cmds, writes, calls) ==
    /\ buffer_size = size
    /\ buffer = [p \in 0..(size - 1) |-> OldByte(p)]
    /\ total_write_size = total0
    /\ active_writers = 0
    /\ callbacks = 0
    /\ wr = [w \in Writers |-> IdleWriter]
    /\ rd = [r \in ReadersOf(who) |-> NewReader]
    /\ gh = [r \in ReadersOf(who) |-> NewHistory]
    /\ stream = <<>>
    /\ base = total0
    /\ caller = who
    /\ script = cmds
    /\ writes_left = writes
    /\ calls_left = [r \in ReadersOf(who) |-> calls]

\* A ring buffer and its callers, in a program that does not log.
InitWith(size, total0, who, cmds, writes, calls) ==
    /\ InitRing(size, total0, who, cmds, writes, calls)
    /\ InitLoggerWith("text", 0)
    /\ ndebug = FALSE

\* Threads: two writers and a reader on a buffer whose counter is about to
\* roll over.
InitThreads == InitWith(4, U32 - 2, "threads", <<>>, MaxWrites, MaxCalls)

\* A single thread, on a new buffer and on one about to roll its counter over.
InitSingle ==
    \E total0 \in {0, U32 - 2} :
        InitWith(4, total0, "single", <<>>, MaxSingleWrites, MaxSingleCalls)

Repeat(c, times) == [k \in 1..times |-> c]

\* Scenarios, as <<name, buffer size, calls>>: three tests of
\* src/test/lock_free_ring_buffer_test.cpp, a caller that reads a write in
\* two parts, and a reader that is lapped by a whole period of the counter
\* between its peek and its MarkRead, or between two peeks.
TestBufferWraparound ==
    <<"TestBufferWraparound", 16,
      <<Cmd("ctor", 0), Cmd("write", 8), Cmd("peek", 0), Cmd("mark_size", 0),
        Cmd("write", 12), Cmd("peek", 0), Cmd("copy", 4), Cmd("copy", 10)>> >>

TestLargeWrite ==
    <<"TestLargeWrite", 64, <<Cmd("ctor", 0), Cmd("write", 32), Cmd("peek", 0)>> >>

TestOverflowDetection ==
    <<"TestOverflowDetection", 32,
      <<Cmd("ctor", 0), Cmd("write", 1), Cmd("peek", 0)>>
          \o Repeat(Cmd("write", 10), 10) \o <<Cmd("peek", 0)>> >>

ReadInParts ==
    <<"ReadInParts", 16,
      <<Cmd("ctor", 0), Cmd("write", 8), Cmd("read", 3), Cmd("read", 8)>> >>

LappedReader ==
    <<"LappedReader", U32 \div 2,
      <<Cmd("ctor", 0), Cmd("write", 1), Cmd("peek", 0),
        Cmd("write", (U32 \div 2) - 1), Cmd("write", (U32 \div 2) - 1),
        Cmd("write", 2), Cmd("mark_size", 0)>> >>

LappedPeek ==
    <<"LappedPeek", U32 \div 2,
      <<Cmd("ctor", 0), Cmd("write", 1), Cmd("peek", 0),
        Cmd("write", (U32 \div 2) - 1), Cmd("write", (U32 \div 2) - 1),
        Cmd("write", 2), Cmd("peek", 0)>> >>

Scenarios == {TestBufferWraparound, TestLargeWrite, TestOverflowDetection, ReadInParts,
              LappedReader, LappedPeek}

InitScript == \E sc \in Scenarios : InitWith(sc[2], 0, sc[1], sc[3], 0, 0)

\* Two writers that stall and overtake each other, and no reader.
InitWriters == InitWith(4, U32 - 2, "threads", <<>>, MaxWriterWrites, 0)

\* One thread that writes and has two readers, constructed at any time (as
\* TestMultipleReaders has); it writes and marks as the threads do.
InitReaders == InitWith(4, U32 - 2, "readers", <<>>, MaxReadersWrites, MaxReadersCalls)

\* The threads of a program that logs, with any of the built-in serializers
\* installed at its start.
InitLogger ==
    /\ InitRing(MIN_LOGGER_BUFFER_SIZE, 0, "logger", <<>>, 0, 0)
    /\ \E format \in Formats : InitLoggerWith(format, MaxLogs)

Init == InitThreads \/ InitScript

WriterStep ==
    \E w \in Writers :
        \/ \E len \in WriteLens : WriteCall(w, len)
        \/ WriteFetchAdd(w)
        \/ WriteMemcpyWrap(w)
        \/ WriteMemcpy(w)
        \/ WriteDec(w)
        \/ WriteCallback(w)

ReaderStep ==
    \E r \in Readers :
        \/ ReaderCall(r, "ctor", 0)
        \/ ReaderCall(r, "peek", 0)
        \/ \E n \in MarkArgs(r) : ReaderCall(r, "mark", n)
        \/ \E n \in ReadArgs : ReaderCall(r, "read", n)
        \/ ReaderCheckActive(r)
        \/ ReaderSample(r)
        \/ ReaderRecheck(r)
        \/ \E n \in CopyArgs : ReaderCopy(r, n)
        \/ ReaderReadCopy(r)

Next == WriterStep \/ ReaderStep

\* Threads, and the test scenarios.
Spec == Init /\ [][Next]_vars

\* The writers alone.
SpecWriters == InitWriters /\ [][WriterStep]_vars

\* One thread that makes any calls.
SpecSingle == InitSingle /\ [][Next]_vars

\* Two readers of one buffer.
SpecReaders == InitReaders /\ [][Next]_vars

LoggerStep ==
    \E t \in Threads :
        \/ WriteThreadNames(t)
        \/ \E payload \in Payloads : LogCall(t, MIN_LOGGER_INFO, payload)
        \/ SendThreadNameIfNeeded(t)
        \/ \E name_len \in NameLens : SendThreadName(t, name_len)
        \/ \E dt \in {0, 1} : SerializerTime(t, dt)
        \/ SerializerExchange(t)
        \/ SerializerThreadIdx(t)
        \/ SerializerWrite(t)

\* The threads of the logger.
SpecLogger == InitLogger /\ [][LoggerStep]_vars

\* ---------------------------------------------------------- the properties

\* The bytes written from total `from` up to total `to`, in the order of the
\* fetch_adds.
Written(from, to) == SubSeq(stream, from - base + 1, to - base)

\* The reader's constructor has returned.
Constructed(r) == rd[r].pc # "new" /\ ~(rd[r].op = "ctor" /\ rd[r].pc # "idle")

\* The bytes in the memory that a read result refers to.
ReturnedBytes(r) ==
    [k \in 1..Size(rd[r].results) |-> buffer[Positions(rd[r].results)[k]]]

\* read_tail_, counted from the first byte ever written.
TrueTail(r) == gh[r].origin + rd[r].read_tail

\* The bytes written from the construction of the reader up to read_tail_.
ConsumedRange(r) == Written(gh[r].start, TrueTail(r))

\* The bytes written from read_tail_ on, as many as the read result has.
WrittenFromTail(r) == Written(TrueTail(r), TrueTail(r) + Size(rd[r].results))

Range(f) == {f[x] : x \in DOMAIN f}

\* Steps on which a call of the reader returns.
PeekReturns(r) == rd[r].pc = "recheck" /\ rd[r].op = "peek" /\ rd'[r].pc = "idle"

\* Read's PeekAvailable counts as one.
PeekReturnsTrue(r) ==
    /\ rd[r].pc = "recheck"
    /\ rd[r].op \in {"peek", "read"}
    /\ rd'[r].pc \in {"idle", "copy"}
    /\ rd'[r].ok

\* Read's MarkRead counts as one.
MarkReadReturnsTrue(r) ==
    /\ rd[r].pc = "recheck"
    /\ rd[r].op \in {"mark", "read_mark"}
    /\ rd'[r].pc = "idle"
    /\ rd'[r].ok

\* A Write call that has claimed its range and not returned.
Claimed(w) == wr[w].pc \in {"memcpy_wrap", "memcpy", "dec", "callback"}

\* A Write call whose copy is complete.
Finished(w) == wr[w].pc \in {"dec", "callback"}

\* The number of bytes ever written when the current call of writer w claimed
\* its range.
ClaimedAt(w) ==
    base + (CHOOSE i \in 1..Len(stream) : stream[i] = <<w, wr[w].calls, 1>>) - 1

\* ---- C1
\* C1: when a PeekAvailable returns true, at the moment GetWriteTotal takes the
\* total it returns (its second read of the counter, in the line that finds
\* active_writers_ zero), no Write that has claimed a range is still copying,
\* and the returned parts, lying within what has been written, hold bytes of
\* complete writes only: exactly the bytes written from read_tail_ on, unless
\* 2^32 bytes or more are unread.
C1_PeekReturnsCompleteWrites ==
    [][\A r \in Readers :
        PeekReturnsTrue(r) =>
            /\ \A w \in Writers : ~Copying(w)'
            /\ TrueTail(r)' + Size(rd'[r].results) <= TrueTotal' =>
                    /\ Range(ReturnedBytes(r)') \subseteq Range(stream')
                    /\ TrueTotal' - TrueTail(r)' < U32 =>
                            ReturnedBytes(r)' = WrittenFromTail(r)']_vars

\* A PeekAvailable that had to start over because of a write in progress has
\* returned true with bytes.
C1_Witness ==
    \E r \in Readers :
        /\ caller = "threads"
        /\ Peeked(r)
        /\ gh[r].waited
        /\ Size(rd[r].results) > 0

\* ---- C2
\* C2 (amended): if a PeekAvailable returns true and the reader's next MarkRead
\* returns true, and fewer than 2^32 - N bytes were written between the two,
\* then no peeked position of the memory was written between the two.
C2_MarkReadConfirmsPeek ==
    [][\A r \in Readers :
        (/\ MarkReadReturnsTrue(r)
         /\ gh[r].pending
         /\ TrueTotal - gh[r].peek_at < U32 - buffer_size)
        => gh[r].dirty \cap Range(Positions(rd[r].results)) = {}]_vars

\* Writes came between a PeekAvailable that returned bytes and the MarkRead
\* that confirmed them.
C2_Witness ==
    \E r \in Readers :
        /\ caller = "threads"
        /\ rd[r].pc = "idle"
        /\ rd[r].op \in {"mark", "read_mark"}
        /\ rd[r].ok
        /\ Size(rd[r].results) > 0
        /\ gh[r].dirty # {}
        /\ gh[r].mark_at > gh[r].peek_at

\* C2 as the spec states it: for any number of bytes written in between.
C2_AsStated ==
    [][\A r \in Readers :
        (MarkReadReturnsTrue(r) /\ gh[r].pending)
        => gh[r].dirty \cap Range(Positions(rd[r].results)) = {}]_vars

C4_WritePeekRoundTrip ==
    \A r \in Readers :
        (/\ Constructed(r)
         /\ ~gh[r].skipped
         /\ TrueTotal - gh[r].start <= buffer_size)
        => /\ ~gh[r].lost
           /\ gh[r].start <= TrueTail(r)
           /\ TrueTail(r) <= TrueTotal
           /\ gh[r].consumed = Written(gh[r].start, TrueTail(r))

\* Two writes of N bytes together, all consumed.
C4_Witness ==
    \E r \in Readers :
        /\ caller = "single"
        /\ ~gh[r].skipped
        /\ wr[1].calls = 2
        /\ TrueTotal - gh[r].start = buffer_size
        /\ Len(gh[r].consumed) = buffer_size
        /\ gh[r].consumed = stream

\* ---- C5
\* The length of the write that claimed its range last.
LastWriteLen == stream[Len(stream)][3]

\* C5: a reader whose read_tail_ is at the start of the last write, of len
\* bytes at buffer index offset with offset + len > N, peeks: part1 is the
\* N - offset bytes at index offset, part2 the other len - (N - offset) bytes
\* at index 0, and part1 followed by part2 is the payload of the write.
C5_WrappedWritePeek ==
    \A r \in Readers :
        (stream # <<>> /\ Peeked(r) /\ gh[r].peek_at = TrueTotal) =>
            LET len == LastWriteLen
                from == TrueTotal - len
                offset == from % buffer_size
            IN (TrueTail(r) = from /\ offset + len > buffer_size) =>
                /\ rd[r].results = [part1 |-> offset,
                                    part1_size |-> buffer_size - offset,
                                    part2 |-> 0,
                                    part2_size |-> len - (buffer_size - offset)]
                /\ ReturnedBytes(r) = Written(from, TrueTotal)

\* The peek of TestBufferWraparound has returned the 12 bytes written at
\* index 8 of 16.
C5_Witness ==
    \E r \in Readers :
        /\ caller = "TestBufferWraparound"
        /\ Peeked(r)
        /\ gh[r].peek_at = TrueTotal
        /\ TrueTail(r) = TrueTotal - LastWriteLen
        /\ rd[r].results.part1_size > 0
        /\ rd[r].results.part2_size > 0

Unread(r) == TrueTotal - TrueTail(r)

\* C8 (amended): if, when a PeekAvailable samples the total, the bytes written
\* and not marked read are more than N (and fewer than 2^32), it returns false
\* with an empty result, calls the overflow function once, with (that number
\* of bytes, N), and sets read_tail_ to the total written; and a
\* PeekAvailable that follows a call that returned false, with no write in
\* between, returns true with zero bytes and calls no overflow function.
C8_OverrunDetected ==
    [][\A r \in Readers :
        PeekReturns(r) =>
            /\ (Unread(r) > buffer_size /\ Unread(r) < U32) =>
                    /\ ~rd'[r].ok
                    /\ rd'[r].results = EmptyResults
                    /\ rd'[r].cb = <<<<Unread(r), buffer_size>>>>
                    /\ TrueTail(r)' = TrueTotal'
            /\ gh[r].reset_at = TrueTotal =>
                    /\ rd'[r].ok
                    /\ Size(rd'[r].results) = 0
                    /\ rd'[r].cb = <<>>]_vars

\* A PeekAvailable has found all the bytes written since the construction of
\* the reader unread, more than N of them, and has reported them.
C8_Witness ==
    \E r \in Readers :
        /\ rd[r].pc = "idle"
        /\ rd[r].op = "peek"
        /\ ~rd[r].ok
        /\ gh[r].mark_at = gh[r].start
        /\ TrueTotal - gh[r].start > buffer_size
        /\ rd[r].cb = <<<<TrueTotal - gh[r].start, buffer_size>>>>
        /\ gh[r].reset_at = TrueTotal
        /\ TrueTail(r) = TrueTotal

\* C8 as the spec states it: the bytes written since the last MarkRead that
\* returned true (or the construction) decide, and are what is reported.
C8_AsStated ==
    [][\A r \in Readers :
        (PeekReturns(r) /\ TrueTotal - gh[r].mark_at > buffer_size) =>
            /\ ~rd'[r].ok
            /\ rd'[r].results = EmptyResults
            /\ rd'[r].cb = <<<<TrueTotal - gh[r].mark_at, buffer_size>>>>
            /\ TrueTail(r)' = TrueTotal']_vars

\* ---- C9
\* The scenario has made all its calls.
Done == script = <<>> /\ AllIdle

\* C9 (amended): scenario S4, a new reader on a new buffer of 32 bytes, a write
\* of 1 byte, a PeekAvailable, ten writes of 10 bytes: the next PeekAvailable
\* returns false and the overflow function is called with (101, 32).
C9_ScenarioS4 ==
    (caller = "TestOverflowDetection" /\ Done) =>
        \A r \in Readers :
            /\ buffer_size = 32
            /\ TrueTotal = 101
            /\ ~rd[r].ok
            /\ rd[r].cb = <<<<101, 32>>>>

\* The scenario has run to its end, and its first peek returned the byte.
C9_Witness ==
    /\ caller = "TestOverflowDetection"
    /\ Done
    /\ \E r \in Readers : rd[r].op = "peek" /\ ~rd[r].ok /\ gh[r].peek_at = 1

\* C9 as the spec states it: the overflow function is called with (100, 32).
C9_AsStated ==
    (caller = "TestOverflowDetection" /\ Done) =>
        \A r \in Readers : ~rd[r].ok /\ rd[r].cb = <<<<100, 32>>>>

\* ---- C10
\* C10 as the spec states it: read_tail_ never exceeds the number of bytes
\* written, whatever calls are made.
C10_AsStated ==
    \A r \in Readers : Constructed(r) => TrueTail(r) <= TrueTotal

\* ---- C11
\* C11 as the spec states it: a MarkRead(n) with n greater than the number of
\* available bytes returns true and leaves read_tail_ at the write head.
C11_AsStated ==
    [][\A r \in Readers :
        (/\ MarkReadReturnsTrue(r)
         /\ rd[r].op = "mark"
         /\ Unread(r) >= 0
         /\ rd[r].n > Unread(r))
        => TrueTail(r)' = TrueTotal']_vars

\* ---- C12
\* Steps on which a MarkRead returns, Read's MarkRead counted as one.
MarkReadReturns(r) ==
    /\ rd[r].pc = "recheck"
    /\ rd[r].op \in {"mark", "read_mark"}
    /\ rd'[r].pc = "idle"

\* C12 (amended): if, when a MarkRead(n) samples the total, more than N and
\* fewer than 2^32 bytes have been written beyond read_tail_, it returns false,
\* calls the overflow function once and, whatever n is, sets read_tail_ to the
\* total written instead of advancing it by n.
C12_MarkReadAfterOverrun ==
    [][\A r \in Readers :
        (/\ MarkReadReturns(r)
         /\ Unread(r) > buffer_size
         /\ Unread(r) < U32)
        => /\ ~rd'[r].ok
           /\ rd'[r].cb = <<<<Unread(r), buffer_size>>>>
           /\ TrueTail(r)' = TrueTotal']_vars

\* A PeekAvailable returned true, more than N bytes were written, and the
\* MarkRead that followed returned false and moved read_tail_ to the total.
C12_Witness ==
    \E r \in Readers :
        /\ caller = "threads"
        /\ rd[r].pc = "idle"
        /\ rd[r].op = "mark"
        /\ ~rd[r].ok
        /\ TrueTotal - gh[r].peek_at > buffer_size
        /\ gh[r].reset_at = TrueTotal
        /\ TrueTail(r) = TrueTotal

\* C12 as the spec states it: whenever more than N bytes have been written
\* beyond read_tail_, MarkRead returns false.
C12_AsStated ==
    [][\A r \in Readers :
        (MarkReadReturns(r) /\ Unread(r) > buffer_size) => ~rd'[r].ok]_vars

\* ---- C13
\* C13: with two readers on one buffer, a step of a call of one reader
\* (PeekAvailable, MarkRead, Read, an overrun reset among them) leaves the
\* read_tail_ of the other reader as it was, a step of the writer leaves both,
\* and each reader that has had no overrun and marks what it copied out has
\* consumed the bytes written from its own construction up to its own
\* read_tail_, which lies between its construction and the total written.
C13_ReadersIndependent ==
    [][\A r \in Readers :
        /\ rd'[r].read_tail # rd[r].read_tail =>
                /\ rd[r].pc = "recheck"
                /\ \A q \in Readers \ {r} : rd'[q] = rd[q] /\ gh'[q] = gh[q]
        /\ (Constructed(r)' /\ ~gh'[r].lost /\ ~gh'[r].skipped) =>
                /\ gh'[r].start <= TrueTail(r)'
                /\ TrueTail(r)' <= TrueTotal'
                /\ gh'[r].consumed = ConsumedRange(r)']_vars

\* Two readers constructed at different totals: one has been overrun and
\* reset, the other has consumed everything written since its construction.
C13_Witness ==
    \E r, q \in Readers :
        /\ caller = "readers"
        /\ gh[r].lost
        /\ Constructed(q)
        /\ ~gh[q].lost
        /\ ~gh[q].skipped
        /\ gh[q].start > gh[r].start
        /\ gh[q].consumed # <<>>
        /\ TrueTail(q) = TrueTotal
        /\ gh[r].reset_at = TrueTotal

\* ---- C14
\* C14: the counter starts just below 2^32 and the reader is constructed
\* there.  When a PeekAvailable of this reader takes the total after the
\* writes have crossed 2^32, with at most N bytes unread, the total
\* GetWriteTotal extrapolates is 2^32 plus the wrapped counter, the new bytes
\* are the bytes written and unread, the call returns true without calling
\* the overflow function, and the parts returned hold those bytes.
C14_CounterRollover ==
    [][\A r \in Readers :
        (/\ rd[r].pc = "recheck"
         /\ rd[r].op \in {"peek", "read"}
         /\ rd'[r].pc \in {"idle", "copy"}
         /\ base < U32
         /\ gh[r].start = base
         /\ TrueTotal >= U32
         /\ Unread(r) >= 0
         /\ Unread(r) <= buffer_size)
        => LET new_low == rd[r].total_write_size
               cur_total == ExtrapolateTotal(rd[r].read_tail, new_low)
           IN /\ new_low = total_write_size
              /\ new_low = TrueTotal - U32
              /\ cur_total = U32 + new_low
              /\ NewBytes(cur_total, rd[r].read_tail) = Unread(r)
              /\ rd'[r].ok
              /\ rd'[r].cb = <<>>
              /\ Size(rd'[r].results) = Unread(r)
              /\ ReturnedBytes(r)' = Written(TrueTail(r), TrueTotal)]_vars

\* A reader constructed below 2^32, with read_tail_ still below it, has peeked
\* a buffer full of bytes whose writes crossed 2^32.
C14_Witness ==
    \E r \in Readers :
        /\ caller = "threads"
        /\ Peeked(r)
        /\ gh[r].start = base
        /\ rd[r].read_tail < U32
        /\ TrueTotal > U32
        /\ gh[r].peek_at = TrueTotal
        /\ Size(rd[r].results) = buffer_size
        /\ TrueTail(r) + buffer_size = TrueTotal

\* ---- C15
\* The steps of a Write call after its active_writers_++.
WriteStep(w) ==
    \/ WriteFetchAdd(w)
    \/ WriteMemcpyWrap(w)
    \/ WriteMemcpy(w)
    \/ WriteDec(w)
    \/ WriteCallback(w)

\* The steps a Write call has yet to take: the fetch_add, a step for each byte
\* it has yet to copy, the decrement and the callback.
StepsLeft(w) ==
    CASE wr[w].pc = "idle" -> 0
      [] wr[w].pc = "fetch_add" -> wr[w].asked + 3
      [] wr[w].pc \in {"memcpy_wrap", "memcpy"} -> (wr[w].data_len - wr[w].i) + 2
      [] wr[w].pc = "dec" -> 2
      [] wr[w].pc = "callback" -> 1

\* C15: a Write call that has incremented active_writers_ can take its next
\* step whatever the other writers and the readers are doing; each of its
\* steps brings it one step nearer to its return, at most data_len + 3 steps
\* away after the increment; and no step of another writer or of a reader
\* changes anything of the call.
C15_WriteWaitFree ==
    [][\A w \in Writers :
        /\ wr[w].pc # "idle" => ENABLED WriteStep(w)
        /\ StepsLeft(w) <= wr[w].asked + 3
        /\ (wr[w].pc # "idle" /\ wr'[w] # wr[w]) =>
                /\ WriteStep(w)
                /\ StepsLeft(w)' = StepsLeft(w) - 1]_vars

\* A writer has stalled in its copy, after its increment; the other writer
\* claimed its range later and has returned; a reader is waiting in
\* GetWriteTotal.
C15_Witness ==
    \E w1, w2 \in Writers :
        /\ caller = "threads"
        /\ wr[w1].pc = "memcpy"
        /\ wr[w1].i = 0
        /\ stream[1][1] = w1
        /\ wr[w2].calls = 1
        /\ wr[w2].pc = "idle"
        /\ Len(stream) > wr[w1].asked
        /\ \E r \in Readers : rd[r].pc = "sample" /\ gh[r].waited

\* ---- C16
\* The steps of a call of a reader after its first read of the counter.
ReaderProgress(r) ==
    \/ ReaderCheckActive(r)
    \/ ReaderSample(r)
    \/ ReaderRecheck(r)
    \/ ReaderReadCopy(r)

\* Threads that are scheduled fairly: a Write call that has started takes its
\* next step in the end, and so does a call of the reader.  The writers start
\* MaxWrites calls at most.
SpecFair ==
    /\ InitThreads
    /\ [][Next]_vars
    /\ \A w \in Writers : WF_vars(WriteStep(w))
    /\ \A r \in ReadersOf("threads") : WF_vars(ReaderProgress(r))

\* The reader is in a call.
InCall(r) == rd[r].pc \in {"check_active", "sample", "recheck", "copy"}

\* C16: when every Write call that has started finishes and in the end no new
\* one starts, every call of the constructor, PeekAvailable, MarkRead or Read
\* returns.
C16_ReaderProgress ==
    \A r \in ReadersOf("threads") : InCall(r) ~> rd[r].pc = "idle"

\* A MarkRead that found a write in progress and started GetWriteTotal over
\* has returned after the last Write call did.
C16_Witness ==
    \E r \in Readers :
        /\ caller = "threads"
        /\ rd[r].pc = "idle"
        /\ rd[r].op = "mark"
        /\ gh[r].waited
        /\ writes_left = 0
        /\ \A w \in Writers : wr[w].pc = "idle"

\* ---- C17
\* The frames of log macros, and the thread name frames.
IsUserFrame(f) == f.msg_id # THREAD_NAME_MSG_ID
IsNameFrame(f) == f.msg_id = THREAD_NAME_MSG_ID

\* C17 as the spec states it: when a thread that has yet to send its name for
\* the last min_logger_write_thread_names calls a built-in serializer, that
\* call emits one frame with msg_id 0xFFFFFF00 before its user frame.
C17_AsStated ==
    \A i \in DOMAIN frames :
        (IsUserFrame(frames[i]) /\ frames[i].owed) =>
            \E j \in (frames[i].since + 1)..(i - 1) :
                /\ frames[j].by = frames[i].by
                /\ IsNameFrame(frames[j])

\* ---- C18
\* C18: no two threads have the same slot; the slots are 0, 1, 2, ... in the
\* order of the increments of thread_count, which counts them; and a slot,
\* once assigned, stays.
C18_ThreadSlots ==
    [][/\ \A t, u \in Threads :
            (/\ t # u
             /\ th'[t].local_thread_idx # -1
             /\ th'[u].local_thread_idx # -1)
            => th'[t].local_thread_idx # th'[u].local_thread_idx
       /\ \A k \in DOMAIN assigned' : th'[assigned'[k]].local_thread_idx = k - 1
       /\ thread_count' = Len(assigned')
       /\ \A t \in Threads :
            th[t].local_thread_idx # -1 =>
                th'[t].local_thread_idx = th[t].local_thread_idx]_vars

\* Two threads logged for the first time at once; the second of them took
\* slot 0, and both have written their frames.
C18_Witness ==
    /\ assigned = <<2, 1>>
    /\ th[2].local_thread_idx = 0
    /\ th[1].local_thread_idx = 1
    /\ Len(frames) = 2
    /\ frames[1].by = 1
    /\ \A t \in Threads : th[t].pc = "idle"

\* ---- C19
\* C19 as the spec states it: every frame a built-in serializer hands to
\* min_logger_write on the buffered platform, with its buffer of 256 bytes,
\* has 0 < len < N, and the assertion of Write does not fail.
C19_AsStated ==
    /\ ~aborted
    /\ \A i \in DOMAIN frames :
        /\ 0 < frames[i].len
        /\ frames[i].len < MIN_LOGGER_BUFFER_SIZE

\* ---- C20
\* C20: a frame of the binary serializer is a header of 16 bytes and
\* min(payload_len, 240) bytes of payload, 256 bytes at most, and the
\* payload_len of the header is the number of payload bytes behind it.
C20_BinaryFrameClipped ==
    \A i \in DOMAIN frames :
        frames[i].format = "binary" =>
            /\ frames[i].payload = Min(frames[i].asked, 240)
            /\ frames[i].len = 16 + frames[i].payload
            /\ frames[i].len <= 256
            /\ frames[i].payload_len = frames[i].payload

\* The binary serializer has clipped a payload of 300 bytes to 240.
C20_Witness ==
    \E i \in DOMAIN frames :
        /\ frames[i].format = "binary"
        /\ frames[i].asked = 300
        /\ frames[i].payload_len = 240
        /\ frames[i].len = 256

\* ---- C21
\* MIN_LOGGER_BUFFER_SIZE as a program may define it, scaled as the counter
\* is: a buffer that two frames of a log macro without a long payload fit in.
FrameBufferSize == U32 \div 2

\* The payloads whose frames fit in that buffer.
ShortPayloads == {payload \in Payloads : payload[2] <= 5}

\* The frames a thread has handed to min_logger_write.
FramesOf(t) == SelectSeq(frames, LAMBDA f : f.by = t)

\* min_logger_write of the buffered platform, called by the serializer: the
\* start of ring_buffer.Write(msg, len_bytes), up to active_writers_++.
\* Thread t is writer t of the buffer.
SerializerWriteCall(t) ==
    /\ th[t].pc = "write"
    /\ wr[t].pc = "idle"
    /\ WritePrecondition(Frame(t).len, buffer_size)
    /\ frames' = Append(frames, Frame(t))
    /\ th' = [th EXCEPT ![t].pc = "in_write"]
    /\ active_writers' = (active_writers + 1) % U32
    /\ wr' = [wr EXCEPT ![t] = [@ EXCEPT !.pc = "fetch_add",
                                         !.calls = @ + 1,
                                         !.data = Payload(t, wr[t].calls + 1,
                                                          Frame(t).len),
                                         !.data_len = Frame(t).len,
                                         !.asked = Frame(t).len]]
    /\ UNCHANGED <<buffer_size, buffer, total_write_size, callbacks, rd, gh, stream,
                   base, caller, script, writes_left, calls_left, serialize_format,
                   thread_count, name_broadcast_count, last_timestamp_ns, clock, ndebug,
                   aborted, assigned, logs_left, call, level, udp>>

\* Write has returned, and min_logger_write and the serializer with it.
SerializerWriteReturn(t) ==
    /\ th[t].pc = "in_write"
    /\ wr[t].pc = "idle"
    /\ th' = [th EXCEPT ![t] = Returned(th[t])]
    /\ UNCHANGED <<ring, udp, call, level, serialize_format, thread_count, name_broadcast_count,
                   last_timestamp_ns, clock, frames, ndebug, aborted, assigned, logs_left>>

\* The threads of a program that logs through the ring buffer and never asks
\* for thread names; the counter of the buffer is about to roll over.
InitFrames ==
    /\ InitRing(FrameBufferSize, U32 - 2, "logger", <<>>, 0, 0)
    /\ \E format \in Formats : InitLoggerWith(format, MaxLogs)

FramesStep ==
    \E t \in Threads :
        \/ \E payload \in ShortPayloads : LogCall(t, MIN_LOGGER_INFO, payload)
        \/ \E dt \in {0, 1} : SerializerTime(t, dt)
        \/ SerializerExchange(t)
        \/ SerializerThreadIdx(t)
        \/ SerializerWriteCall(t)
        \/ WriteFetchAdd(t)
        \/ WriteMemcpyWrap(t)
        \/ WriteMemcpy(t)
        \/ WriteDec(t)
        \/ WriteCallback(t)
        \/ SerializerWriteReturn(t)

SpecFrames == InitFrames /\ [][FramesStep]_vars

\* The place in the stream of the first byte of call k of Write by thread t,
\* or 0 when the call has not claimed its range.
FirstByteAt(t, k) ==
    LET at == {i \in 1..Len(stream) : stream[i] = <<t, k, 1>>}
    IN IF at = {} THEN 0 ELSE CHOOSE i \in at : TRUE

\* The frames thread t has handed to min_logger_write in its current call.
FramesOfCall(t) == {i \in (th[t].since + 1)..Len(frames) : frames[i].by = t}

\* C21: a serializer that is called hands no frame to min_logger_write before
\* its own call of it and one frame with it, and min_logger_write calls Write
\* once for a frame; the bytes of a frame are one contiguous range of the
\* stream, in their order, at the total that the fetch_add of its Write call
\* returned; and while no more than a buffer of bytes is written and no Write
\* is in progress, the memory holds the frames back to back.
C21_OneWritePerFrame ==
    /\ \A t \in Threads :
        /\ th[t].pc \in {"time", "exchange", "thread_idx", "write"} =>
                FramesOfCall(t) = {}
        /\ th[t].pc = "in_write" => Cardinality(FramesOfCall(t)) = 1
        /\ Len(FramesOf(t)) = wr[t].calls
        /\ \A k \in 1..wr[t].calls :
            LET at == FirstByteAt(t, k)
                len == FramesOf(t)[k].len
            IN /\ at = 0 => \A i \in 1..Len(stream) : stream[i][1] = t => stream[i][2] # k
               /\ at # 0 =>
                    /\ \A j \in 1..len : stream[at + j - 1] = <<t, k, j>>
                    /\ \A i \in 1..Len(stream) :
                        (stream[i][1] = t /\ stream[i][2] = k) =>
                            (at <= i /\ i < at + len)
               /\ (at # 0 /\ k = wr[t].calls /\ Claimed(t)) =>
                        wr[t].old_size = (base + at - 1) % U32
    /\ ((\A t \in Threads : wr[t].pc = "idle") /\ Len(stream) <= buffer_size) =>
            \A i \in 1..Len(stream) : buffer[(base + i - 1) % buffer_size] = stream[i]

\* Two threads logged at once: the thread that called min_logger_write first
\* claimed its range second, and both frames are in the memory.
C21_Witness ==
    /\ caller = "logger"
    /\ Len(frames) = 2
    /\ frames[1].by = 1
    /\ frames[2].by = 2
    /\ frames[1].len + frames[2].len <= buffer_size
    /\ frames[1].len # frames[2].len
    /\ Len(stream) = frames[1].len + frames[2].len
    /\ stream[1] = <<2, 1, 1>>
    /\ \A t \in Threads : th[t].pc = "idle"
    /\ \A i \in 1..Len(stream) : buffer[(base + i - 1) % buffer_size] = stream[i]

\* ---- C22
\* C22 as the spec states it: a frame of the micro serializer is the header
\* of 4 bytes and the payload, with one length byte before a payload of
\* variable length (a string) that is not empty.
C22_AsStated ==
    \A i \in DOMAIN frames :
        frames[i].format = "micro" =>
            frames[i].len = SizeofMicroMessage + frames[i].asked
                            + (IF frames[i].payload_type = "STRING" /\ frames[i].asked > 0
                               THEN 1 ELSE 0)

\* ---- C23
\* 2^64 - 1 = 18 446 744 073 709 551 615
UINT64_MAX == <<615, 551, 709, 73, 744, 446, 18>>

\* The times converted: every uint64_t whose digits in base 1000 are 0, 1 or
\* 999 (among them 999, 1000, 10^12 - 1 and 10^12), and the largest.
NsInputs ==
    {ns \in [1..NsDigits -> {0, 1, 999}] : ns[NsDigits] < UINT64_MAX[NsDigits]}
        \cup {UINT64_MAX}

\* A call of convertNanoseconds.
CallConvertNanoseconds(ns) ==
    /\ call' = [fn |-> "convertNanoseconds", ns |-> ns, ret |-> convertNanoseconds(ns)]
    /\ UNCHANGED <<ring, udp, level, serialize_format, thread_count, name_broadcast_count,
                   last_timestamp_ns, clock, th, frames, ndebug, aborted, assigned,
                   logs_left>>

ConvertStep == \E ns \in NsInputs : CallConvertNanoseconds(ns)

\* A program that converts times.
SpecConvert == InitWith(4, 0, "single", <<>>, 0, 0) /\ [][ConvertStep]_vars

\* a < b, for numbers given by their digits.
Less(a, b) ==
    \E i \in 1..NsDigits : a[i] < b[i] /\ \A j \in (i + 1)..NsDigits : a[j] = b[j]

\* v * 1000^scale, for v up to 1000.
TimesPow1000(v, scale) ==
    [i \in 1..NsDigits |-> IF i = scale + 1 THEN v % 1000
                           ELSE IF i = scale + 2 THEN v \div 1000
                           ELSE 0]

\* value * 1000^scale <= ns < (value + 1) * 1000^scale
InScale(ns, scale, value) ==
    /\ ~Less(ns, TimesPow1000(value, scale))
    /\ Less(ns, TimesPow1000(value + 1, scale))

\* C23: convertNanoseconds(ns) returns a scale of 0..3 and a value below 1000;
\* for ns >= 10^12 it returns (3, 999); for a smaller ns it returns the pair
\* with value * 1000^scale <= ns < (value + 1) * 1000^scale of the smallest
\* scale, and no other pair of that scale satisfies this.
C23_ConvertNanoseconds ==
    call.fn = "convertNanoseconds" =>
        LET ns == call.ns
            scale == call.ret[1]
            value == call.ret[2]
        IN /\ scale \in 0..3
           /\ value \in 0..999
           /\ IF ~Less(ns, TimesPow1000(1, 4))
              THEN call.ret = <<3, 999>>
              ELSE /\ InScale(ns, scale, value)
                   /\ \A s \in 0..3 : \A v \in 0..999 :
                        InScale(ns, s, v) => (s > scale \/ (s = scale /\ v = value))

\* 10^12 ns were converted to the saturated (3, 999).
C23_Witness ==
    /\ call.fn = "convertNanoseconds"
    /\ call.ns = TimesPow1000(1, 4)
    /\ call.ret = <<3, 999>>

\* ---- C24
\* C24: the exchange of the micro serializer stores the caller's reading of
\* the clock; the elapsed time is that reading less the value the exchange
\* returned, or 0 when the exchange returned 0 or a value that is not below
\* the reading, so it is never more than the reading; and the scale and the
\* value of the frame are the conversion of the elapsed time, unchanged by
\* the widths of their bit fields.
C24_MicroElapsed ==
    [][/\ \A t \in Threads :
            (th[t].pc = "exchange" /\ th'[t].pc = "thread_idx") =>
                LET now == th[t].now
                    prev == last_timestamp_ns
                IN /\ last_timestamp_ns' = now
                   /\ th'[t].elapsed_ns = IF prev = 0 \/ now <= prev THEN 0 ELSE now - prev
                   /\ th'[t].elapsed_ns <= now
       /\ \A i \in DOMAIN frames' :
            frames'[i].format = "micro" =>
                <<frames'[i].time_scale, frames'[i].time_value>>
                    = convertNanoseconds(Thousands(frames'[i].elapsed_ns, NsDigits))]_vars

\* Two threads logged at once: the thread that read the clock last
\* exchanged first, and the exchange of the other returned a time later than
\* its own reading; its elapsed time is 0.
C24_Witness ==
    /\ serialize_format = "micro"
    /\ Len(frames) = 2
    /\ frames[1].by # frames[2].by
    /\ clock = 2
    /\ last_timestamp_ns = 1
    /\ frames[1].elapsed_ns = 0
    /\ frames[2].elapsed_ns = 0
    /\ frames[2].time_value = 0

\* ---- C25
\* _MAX_MSG_SIZE of min_logger_default_verbose_format
VERBOSE_MAX_MSG_SIZE == 1024

\* strlen(SEVERITY_STRING(severity))
SeverityLen(severity) ==
    IF severity <= 10 THEN 5
    ELSE IF severity <= 20 THEN 4
    ELSE IF severity <= 30 THEN 4
    ELSE IF severity <= 40 THEN 5
    ELSE 8

\* What snprintf(msg_buffer, _MAX_MSG_SIZE, "%.3f %s %s:%u %s] %s", ...)
\* returns: the length of the whole text, whether it fits or not.
VerboseHead(seconds, severity, file_len, line_number, name_len, msg_len) ==
    (Digits(seconds) + 4) + 1 + SeverityLen(severity) + 1 + file_len + 1
        + Digits(line_number) + 1 + name_len + 2 + msg_len

\* min_logger_default_verbose_format, lines 249-260, for a text of `head`
\* characters before the payload:
\*   oob           a write outside msg_buffer (at msg_buffer[offset] or
\*                 msg_buffer[offset + 1], or by payload_to_string_end, which is
\*                 given msg_buffer + offset and the size_t _MAX_MSG_SIZE - offset)
\*   unterminated  msg_buffer holds no 0, so strlen reads beyond it
\*   len           strlen(msg_buffer), where it is defined
\*   newline       the line ends in '\n', where it is defined
VerboseLine(head, payload_type, payload_len, text_len) ==
    LET has_payload == payload_len > 0 /\ payload_type # "NONE"
        offset == IF has_payload THEN head + 2 ELSE head
        rest == VERBOSE_MAX_MSG_SIZE - offset
    IN [oob |-> \/ has_payload /\ head + 1 >= VERBOSE_MAX_MSG_SIZE
                \/ offset > VERBOSE_MAX_MSG_SIZE,
        unterminated |-> has_payload /\ head + 1 = VERBOSE_MAX_MSG_SIZE - 1,
        len |-> IF rest >= 2
                THEN offset + PayloadToStringEnd(rest, payload_type, payload_len, text_len)
                ELSE VERBOSE_MAX_MSG_SIZE - 1,
        newline |-> rest >= 2]

\* What strlen may return when it reads beyond msg_buffer.
UndefinedLens == {0, VERBOSE_MAX_MSG_SIZE - 1, VERBOSE_MAX_MSG_SIZE, 2 * VERBOSE_MAX_MSG_SIZE}

\* The arguments of the calls: a short and a long file name, and messages
\* that are short or that bring the text close to the size of the buffer.
FileLens == {10, 500}
MsgLens == {0} \cup 498..510
Severities == {20, 50}
LineNumbers == {7}

\* A call of min_logger_default_verbose_format, at a time of 0 seconds: the
\* line it hands to min_logger_write.  A call that writes outside msg_buffer
\* or reads beyond it has undefined behaviour.
CallVerboseFormat(severity, file_len, line_number, name_len, msg_len, payload) ==
    LET head == VerboseHead(0, severity, file_len, line_number, name_len, msg_len)
        line == VerboseLine(head, payload[1], payload[2], payload[3])
    IN /\ \E len \in (IF line.oob \/ line.unterminated THEN UndefinedLens ELSE {line.len}) :
          \E newline \in (IF line.oob \/ line.unterminated THEN BOOLEAN ELSE {line.newline}) :
            call' = [fn |-> "min_logger_default_verbose_format",
                     head |-> head,
                     payload_type |-> payload[1], payload_len |-> payload[2],
                     oob |-> line.oob, unterminated |-> line.unterminated,
                     len |-> len, newline |-> newline]
       /\ UNCHANGED <<ring, udp, level, serialize_format, thread_count, name_broadcast_count,
                      last_timestamp_ns, clock, th, frames, ndebug, aborted, assigned,
                      logs_left>>

VerboseStep ==
    \E severity \in Severities : \E file_len \in FileLens :
    \E line_number \in LineNumbers : \E name_len \in NameLens :
    \E msg_len \in MsgLens : \E payload \in Payloads :
        CallVerboseFormat(severity, file_len, line_number, name_len, msg_len, payload)

\* A program that logs verbose lines.
SpecVerbose == InitWith(4, 0, "single", <<>>, 0, 0) /\ [][VerboseStep]_vars

\* C25 as the spec states it: the verbose formatter writes inside its buffer
\* only, hands at most 1024 bytes to min_logger_write, and the line it hands
\* over ends in a newline, truncated or not.
C25_AsStated ==
    call.fn = "min_logger_default_verbose_format" =>
        /\ ~call.oob
        /\ ~call.unterminated
        /\ call.len <= VERBOSE_MAX_MSG_SIZE
        /\ call.newline

\* ---- C26
\* The threads of a program that sets the runtime level and logs messages of
\* every level without a payload.
InitLevel ==
    /\ InitRing(MIN_LOGGER_BUFFER_SIZE, 0, "logger", <<>>, 0, 0)
    /\ \E format \in Formats : InitLoggerWith(format, MaxLogs)

LevelStep ==
    \/ \E runtime_level \in Levels : SetLevel(runtime_level)
    \/ \E t \in Threads :
        \/ \E msg_level \in Levels : LogCall(t, msg_level, <<"NONE", 0, 0>>)
        \/ \E dt \in {0, 1} : SerializerTime(t, dt)
        \/ SerializerExchange(t)
        \/ SerializerThreadIdx(t)
        \/ SerializerWrite(t)

SpecLevel == InitLevel /\ [][LevelStep]_vars

\* A step of a log macro of thread t.
LogMacroStep(t) == th[t].pc = "idle" /\ logs_left' = logs_left - 1

\* C26 as the spec states it: a log macro calls the serializer when its level
\* is not below the runtime level nor below MIN_LOGGER_MIN_LEVEL, and only
\* then.
C26_AsStated ==
    [][\A t \in Threads :
        (LogMacroStep(t) /\ th'[t] # th[t]) =>
            (th'[t].pc = "time" <=>
                (th'[t].level >= level /\ th'[t].level >= MIN_LOGGER_MIN_LEVEL))]_vars

\* ---- C27
\* C27: the constructor leaves read_tail_ at the total written (its lower 32
\* bits, as a new reader counts from the last rollover) without calling the
\* overflow function; and a PeekAvailable, the PeekAvailable of a Read or a
\* GetNewBytesResetIfOverflow (that of a MarkRead) of a reader whose
\* read_tail_ is where the constructor put it, with nothing written since,
\* returns true with no bytes and without calling the overflow function.
C27_NewReaderAtHead ==
    [][\A r \in Readers :
        /\ (rd[r].pc = "recheck" /\ rd[r].op = "ctor" /\ rd'[r].pc = "idle") =>
                /\ rd'[r].read_tail = TrueTotal' % U32
                /\ TrueTail(r)' = TrueTotal'
                /\ rd'[r].cb = <<>>
        /\ (/\ rd[r].pc = "recheck"
            /\ rd[r].op \in {"peek", "read", "mark"}
            /\ rd'[r].pc \in {"idle", "copy"}
            /\ TrueTail(r) = gh[r].start
            /\ TrueTotal = gh[r].start)
           => /\ rd'[r].ok
              /\ rd'[r].cb = <<>>
              /\ NewBytes(ExtrapolateTotal(rd[r].read_tail, rd[r].total_write_size),
                          rd[r].read_tail) = 0
              /\ rd[r].op \in {"peek", "read"} =>
                    /\ rd'[r].results.part1_size = 0
                    /\ rd'[r].results.part2_size = 0]_vars

\* A reader constructed after the writes had taken the counter over 2^32 has
\* peeked at once and found nothing.
C27_Witness ==
    \E r \in Readers :
        /\ caller = "single"
        /\ Peeked(r)
        /\ base < U32
        /\ gh[r].start > U32
        /\ TrueTotal = gh[r].start
        /\ TrueTail(r) = gh[r].start
        /\ calls_left[r] = MaxSingleCalls - 1
        /\ Size(rd[r].results) = 0

\* ---- C28
\* The read results PeekAvailable returns on a buffer of ViewSize bytes.
Views ==
    {PeekResults(read_tail, new_bytes, ViewSize) :
        read_tail \in 0..(ViewSize - 1), new_bytes \in 0..ViewSize}

\* The read result a call is made on: one that PeekAvailable returned, or the
\* one the last AddOffset returned.
Viewed == Views \cup (IF call.fn = "AddOffset" THEN {call.ret} ELSE {})

\* A call of AddOffset on a read result.
CallAddOffset(results, offset) ==
    /\ call' = [fn |-> "AddOffset", results |-> results, offset |-> offset,
                ret |-> AddOffset(results, offset)]
    /\ UNCHANGED <<ring, udp, level, serialize_format, thread_count, name_broadcast_count,
                   last_timestamp_ns, clock, th, frames, ndebug, aborted, assigned,
                   logs_left>>

ViewStep ==
    \E results \in Viewed : \E offset \in 0..(ViewSize + 1) : CallAddOffset(results, offset)

\* A program that offsets read results of a buffer of ViewSize bytes.
SpecViews == InitWith(ViewSize, 0, "single", <<>>, 0, 0) /\ [][ViewStep]_vars

\* part1 ++ part2: the bytes of the memory a read result refers to.
Bytes(results) == [k \in 1..Size(results) |-> buffer[Positions(results)[k]]]

\* C28: AddOffset(k) with k <= Size() returns a view of the bytes of the
\* original from the k-th on; with k > Size() it returns the empty view; and
\* AddOffset(a) followed by AddOffset(b) refers to the same bytes as
\* AddOffset(a + b) when a + b <= Size().
C28_AddOffsetDrops ==
    call.fn = "AddOffset" =>
        LET results == call.results
        IN /\ call.offset <= Size(results) =>
                /\ Size(call.ret) = Size(results) - call.offset
                /\ Bytes(call.ret) = Drop(Bytes(results), call.offset)
           /\ call.offset > Size(results) => call.ret = EmptyResults
           /\ \A a, b \in 0..Size(results) :
                a + b <= Size(results) =>
                    Bytes(AddOffset(AddOffset(results, a), b))
                        = Bytes(AddOffset(results, a + b))

\* AddOffset has moved a read result that wraps past its part1, into part2.
C28_Witness ==
    /\ call.fn = "AddOffset"
    /\ call.results.part2_size > 1
    /\ call.offset = call.results.part1_size + 1
    /\ Size(call.ret) = call.results.part2_size - 1
    /\ Size(call.ret) > 0
    /\ call.ret.part1 = 1

\* ---- C29
\* A step on which a Copy returns: that of a caller that holds the result of
\* a peek, or that of Read.
CopyReturns(r) ==
    \/ rd[r].pc = "copy" /\ rd'[r].pc = "sample"
    \/ /\ rd[r].pc = "idle"
       /\ rd'[r].pc = "idle"
       /\ rd[r].op = "peek"
       /\ rd'[r].op = "peek"
       /\ IF IsScript
          THEN script # <<>> /\ Head(script).op = "copy" /\ script' = Tail(script)
          ELSE rd'[r].dest # rd[r].dest

\* The max_size that Copy is given.
CopyMax(r) ==
    IF rd[r].pc = "copy" THEN rd[r].n
    ELSE IF IsScript THEN Head(script).n
    ELSE buffer_size

\* C29: Copy(dest, max) leaves in dest min(max, Size()) bytes, the first
\* bytes of part1 ++ part2 in their order as the memory holds them (or as a
\* memcpy in progress leaves them); Read takes that number as size_read; and
\* the read result, read_tail_ and the memory stay as they are.
C29_CopyPrefix ==
    [][\A r \in Readers :
        CopyReturns(r) =>
            LET n == Min(CopyMax(r), Size(rd[r].results))
            IN /\ Len(rd'[r].dest) = n
               /\ \A k \in 1..n :
                    \/ rd'[r].dest[k] = ReturnedBytes(r)[k]
                    \/ /\ Positions(rd[r].results)[k] \in Racing
                       /\ rd'[r].dest[k] = TornByte
               /\ rd[r].pc = "copy" => rd'[r].size_read = n
               /\ rd'[r].results = rd[r].results
               /\ rd'[r].read_tail = rd[r].read_tail
               /\ buffer' = buffer]_vars

\* TestBufferWraparound: of 12 bytes that wrap after 8, Copy(dest, 10) has
\* copied the 8 of part1 and the first 2 of part2.
C29_Witness ==
    /\ caller = "TestBufferWraparound"
    /\ script = <<>>
    /\ rd[1].results.part1_size = 8
    /\ rd[1].results.part2_size = 4
    /\ Len(rd[1].dest) = 10
    /\ rd[1].dest[8] = buffer[15]
    /\ rd[1].dest[10] = buffer[1]
    /\ rd[1].dest = Take(Written(8, 20), 10)

\* ---- C30
\* Steps on which a Read with max_size > 0 returns: from its PeekAvailable
\* with false, or from its MarkRead.
ReadReturns(r) ==
    /\ rd[r].pc = "recheck"
    /\ rd[r].op \in {"read", "read_mark"}
    /\ rd'[r].pc = "idle"

\* C30 as the spec states it: a Read(dest, size_read, max) that returns true
\* has set size_read to the smaller of max and the number of bytes written
\* and unread when it peeked, has copied to dest the oldest size_read unread
\* bytes, and has advanced read_tail_ by size_read.
C30_AsStated ==
    [][\A r \in Readers :
        (ReadReturns(r) /\ rd'[r].ok) =>
            /\ rd'[r].size_read = Min(gh[r].peek_at - TrueTail(r), rd[r].n)
            /\ TrueTail(r) + rd'[r].size_read <= TrueTotal
            /\ rd'[r].dest = Written(TrueTail(r), TrueTail(r) + rd'[r].size_read)
            /\ rd'[r].read_tail = rd[r].read_tail + rd'[r].size_read]_vars

\* ---- C31
\* The Write call of w has incremented active_writers_ and not yet
\* decremented it.
Counted(w) == wr[w].pc \in {"fetch_add", "memcpy_wrap", "memcpy", "dec"}

\* The number of Write calls that have returned.
CompletedWrites ==
    LET done(w) == IF wr[w].pc = "idle" THEN wr[w].calls ELSE wr[w].calls - 1
    IN done(1) + done(2)

\* C31: data_callback_ is called once by every Write, by a writer that has
\* copied the last byte of its data and has taken itself off active_writers_,
\* and the Write returns with that call: whenever k Writes have returned the
\* callback has been called k times.
C31_CallbackOncePerWrite ==
    [][/\ callbacks' = CompletedWrites'
       /\ callbacks' # callbacks =>
            /\ callbacks' = callbacks + 1
            /\ \E w \in Writers :
                /\ wr[w].pc = "callback"
                /\ wr'[w].pc = "idle"
                /\ wr[w].i = wr[w].data_len - 1
                /\ active_writers = Cardinality({x \in Writers \ {w} : Counted(x)})]_vars

\* One writer has returned from its Write with the callback called once,
\* while the other has decremented active_writers_ and not yet called it.
C31_Witness ==
    /\ caller = "threads"
    /\ callbacks = 1
    /\ \E w \in Writers :
        /\ wr[w].pc = "callback"
        /\ \E x \in Writers \ {w} : wr[x].pc = "idle" /\ wr[x].calls = 1

\* ---- C32
\* active_writers_ is the number of Write calls between their increment and
\* their decrement; it is positive while a claimed range is being copied
\* and zero when no Write is in progress.
CountsWriters ==
    /\ active_writers = Cardinality({w \in Writers : Counted(w)})
    /\ (\E w \in Writers : Copying(w)) => active_writers > 0
    /\ (\A w \in Writers : wr[w].pc = "idle") => active_writers = 0

\* C32: in every state active_writers_ counts the Write calls that have
\* incremented and not yet decremented it; a Write is counted when it adds
\* its length to total_write_size_ and stays counted until its copy is
\* complete, so active_writers_ is positive while a claimed range is being
\* copied and zero when no Write is in progress.
C32_ActiveWritersCounts ==
    [][/\ CountsWriters
       /\ CountsWriters'
       /\ total_write_size' # total_write_size =>
            \E w \in Writers :
                /\ wr[w].pc = "fetch_add"
                /\ Counted(w)
                /\ Counted(w)'
       /\ \A w \in Writers :
            (Counted(w) /\ ~Counted(w)') =>
                /\ wr[w].pc = "dec"
                /\ active_writers' = active_writers - 1]_vars

\* Both writers are counted: one has claimed its range and is copying, the
\* other has copied its last byte and not yet decremented.
C32_Witness ==
    /\ caller = "threads"
    /\ active_writers = 2
    /\ \E w \in Writers :
        /\ wr[w].pc = "dec"
        /\ \E x \in Writers \ {w} : Copying(x) /\ wr[x].i > 0

\* ---- C33
\* C33: total_write_size_ is the number of bytes claimed so far modulo 2^32;
\* a write claims the offset (bytes claimed before it) mod buffer_size_, and
\* every byte it copies lands at (its index in the stream of claimed bytes)
\* mod buffer_size_, before and after the counter has rolled over.
C33_OffsetsContiguous ==
    [][/\ total_write_size' = TrueTotal' % U32
       /\ \A w \in Writers :
            (wr[w].pc = "fetch_add" /\ wr'[w].pc # "fetch_add") =>
                /\ wr'[w].old_size = TrueTotal % U32
                /\ wr'[w].write_ptr = TrueTotal % buffer_size
                /\ TrueTotal' = TrueTotal + wr[w].asked
       /\ \A p \in DOMAIN buffer :
            buffer'[p] # buffer[p] =>
                \E j \in 1..Len(stream) :
                    /\ stream[j] = buffer'[p]
                    /\ (base + (j - 1)) % buffer_size = p]_vars

\* A write claimed its range after the counter had rolled over and has
\* copied its first byte, to the offset that continues the stream.
C33_Witness ==
    \E w \in Writers :
        /\ caller = "threads"
        /\ TrueTotal - wr[w].asked > U32
        /\ wr[w].pc = "memcpy"
        /\ wr[w].i = 1
        /\ wr[w].old_size = TrueTotal - wr[w].asked - U32
        /\ buffer[wr[w].old_size % buffer_size] = wr[w].data[1]

\* ---- C34
\* C34: a step of a reader (of its constructor, PeekAvailable, MarkRead, Read
\* or a Copy of its results, the reset after an overrun included) leaves the
\* memory of the buffer, buffer_size_, total_write_size_ and active_writers_
\* as they are.
C34_ReaderLeavesBuffer ==
    [][rd' # rd =>
        /\ buffer' = buffer
        /\ buffer_size' = buffer_size
        /\ total_write_size' = total_write_size
        /\ active_writers' = active_writers]_vars

\* TestOverflowDetection: the reader has found the overrun and reset its
\* read_tail_, and the memory still holds the last buffer_size_ bytes written.
C34_Witness ==
    /\ caller = "TestOverflowDetection"
    /\ script = <<>>
    /\ rd[1].pc = "idle"
    /\ ~rd[1].ok
    /\ rd[1].cb # <<>>
    /\ TrueTail(1) = TrueTotal
    /\ total_write_size = TrueTotal % U32
    /\ active_writers = 0
    /\ \A k \in 1..buffer_size :
            buffer[(TrueTotal - k) % buffer_size] = stream[Len(stream) - k + 1]

\* ---- C35
\* Steps on which a PeekAvailable returns true.
PeekReturnsTrueNow(r) ==
    /\ rd[r].pc = "recheck"
    /\ rd[r].op = "peek"
    /\ rd'[r].pc = "idle"
    /\ rd'[r].ok

\* The bytes written since the last PeekAvailable of r that returned true.
WrittenSincePeek(r) == Written(gh[r].peek_at, TrueTotal)

UdpBufferBits == 3
UdpBufferSize == Pow2(UdpBufferBits)
MaxUdpWrites == 4

\* min_logger_init_udp: assert(MIN_LOGGER_BUFFER_SIZE > packet_size);
\* assert(MIN_LOGGER_BUFFER_SIZE % packet_size == 0)
PacketSizes(size) == {p \in 1..(size - 1) : size % p = 0}

\* The lengths the program logs with.
UdpWriteLens == {1, 3, UdpBufferSize - 1}

\* The task created by min_logger_init_udp(packet_size, ...), before it runs.
NewTask(packet_size) ==
    [pc |-> "start", udp_message_size |-> packet_size, buffer_misaligned |-> FALSE,
     sent |-> 0, past_end |-> FALSE]

\* min_logger_write: ring_buffer.Write(msg, len_bytes), from its first to its
\* last statement with no other thread in between.
UdpWrite(len) ==
    /\ udp.pc \notin {"none", "aborted"}
    /\ writes_left > 0
    /\ WritePrecondition(len, buffer_size)
    /\ LET old_size == total_write_size
           data == Payload(1, wr[1].calls + 1, len)
       IN /\ total_write_size' = FetchAdd(total_write_size, len)
          /\ buffer' = [p \in DOMAIN buffer |->
                            IF \E k \in 1..len :
                                    p = (BufferOffset(old_size, buffer_size) + k - 1)
                                            % buffer_size
                            THEN data[((p - BufferOffset(old_size, buffer_size)
                                        + buffer_size) % buffer_size) + 1]
                            ELSE buffer[p]]
          /\ stream' = stream \o data
    /\ wr' = [wr EXCEPT ![1].calls = @ + 1]
    /\ writes_left' = writes_left - 1
    /\ callbacks' = callbacks
    /\ UNCHANGED <<buffer_size, active_writers, rd, gh, base, caller, script, calls_left,
                   serialize_format, thread_count, name_broadcast_count, last_timestamp_ns,
                   clock, th, frames, ndebug, aborted, assigned, logs_left, call, level, udp>>

\* Line 46: LockFreeRingBufferReader reader(&ring_buffer), read_tail_ =
\* GetWriteTotal() with no write in progress.
UdpConstruct ==
    /\ udp.pc = "start"
    /\ rd' = [rd EXCEPT ![1].read_tail = ExtrapolateTotal(0, total_write_size),
                        ![1].op = "ctor",
                        ![1].pc = "idle"]
    /\ udp' = [udp EXCEPT !.pc = "peek"]
    /\ UNCHANGED <<buffer_size, buffer, total_write_size, active_writers, callbacks, wr, gh,
                   stream, base, caller, script, writes_left, calls_left,
                   serialize_format, thread_count, name_broadcast_count, last_timestamp_ns,
                   clock, th, frames, ndebug, aborted, assigned, logs_left, call, level>>

\* Lines 61-65: reader.PeekAvailable(&results); on false the task is
\* misaligned and peeks again.
UdpPeek ==
    /\ udp.pc = "peek"
    /\ LET s == rd[1]
           cur_total == ExtrapolateTotal(s.read_tail, total_write_size)
           new_bytes == NewBytes(cur_total, s.read_tail)
       IN IF IsOverflow(new_bytes, buffer_size)
          THEN /\ rd' = [rd EXCEPT ![1] = [s EXCEPT !.op = "peek",
                                                    !.results = EmptyResults,
                                                    !.read_tail = cur_total,
                                                    !.ok = FALSE]]
               /\ udp' = [udp EXCEPT !.buffer_misaligned = TRUE]
          ELSE /\ rd' = [rd EXCEPT ![1] = [s EXCEPT !.op = "peek",
                                                    !.results = PeekResults(s.read_tail,
                                                                    new_bytes, buffer_size),
                                                    !.ok = TRUE]]
               /\ udp' = [udp EXCEPT !.pc = "check"]
    /\ UNCHANGED <<buffer_size, buffer, total_write_size, active_writers, callbacks, wr, gh,
                   stream, base, caller, script, writes_left, calls_left,
                   serialize_format, thread_count, name_broadcast_count, last_timestamp_ns,
                   clock, th, frames, ndebug, aborted, assigned, logs_left, call, level>>

\* The assertion of line 82 fails.
Torn(results, udp_message_size) == results.part1_size < udp_message_size

\* Lines 67-83: with less than a packet the task sleeps; a misaligned task
\* whose first part is short marks it read; a task that is not misaligned
\* asserts that the first part holds a packet.
UdpCheck ==
    /\ udp.pc = "check"
    /\ LET results == rd[1].results
       IN /\ udp' = [udp EXCEPT !.pc =
                        IF Size(results) < udp.udp_message_size THEN "delay"
                        ELSE IF udp.buffer_misaligned
                        THEN IF Torn(results, udp.udp_message_size) THEN "realign"
                             ELSE "send"
                        ELSE IF Torn(results, udp.udp_message_size) /\ ~ndebug
                        THEN "aborted"
                        ELSE "send"]
          /\ aborted' = (aborted \/ (/\ Size(results) >= udp.udp_message_size
                                     /\ ~udp.buffer_misaligned
                                     /\ Torn(results, udp.udp_message_size)
                                     /\ ~ndebug))
    /\ UNCHANGED <<ring, serialize_format, thread_count, name_broadcast_count,
                   last_timestamp_ns, clock, th, frames, ndebug, assigned, logs_left, call,
                   level>>

\* MarkRead(num_bytes) with no write in progress: the reader after it, and
\* what it returns.
MarkReadOf(s, num_bytes) ==
    LET cur_total == ExtrapolateTotal(s.read_tail, total_write_size)
        new_bytes == NewBytes(cur_total, s.read_tail)
    IN IF IsOverflow(new_bytes, buffer_size)
       THEN [s EXCEPT !.op = "mark", !.n = num_bytes, !.read_tail = cur_total, !.ok = FALSE]
       ELSE [s EXCEPT !.op = "mark", !.n = num_bytes, !.ok = TRUE,
                      !.read_tail = MarkReadTail(s.read_tail, num_bytes, new_bytes)]

\* Lines 72-77: reader.MarkRead(results.part1_size) moves the read head to
\* the start of the buffer.
UdpRealign ==
    /\ udp.pc = "realign"
    /\ rd' = [rd EXCEPT ![1] = MarkReadOf(rd[1], rd[1].results.part1_size)]
    /\ udp' = [udp EXCEPT !.pc = "peek",
                          !.buffer_misaligned = ~rd'[1].ok]
    /\ UNCHANGED <<buffer_size, buffer, total_write_size, active_writers, callbacks, wr, gh,
                   stream, base, caller, script, writes_left, calls_left,
                   serialize_format, thread_count, name_broadcast_count, last_timestamp_ns,
                   clock, th, frames, ndebug, aborted, assigned, logs_left, call, level>>

\* Lines 86-98: with a socket, sendto(sock, results.part1, udp_message_size,
\* ...), which reads udp_message_size bytes from part1 on.
UdpSend ==
    /\ udp.pc = "send"
    /\ \E sock_open \in BOOLEAN :
        udp' = [udp EXCEPT !.pc = "mark",
                           !.sent = IF sock_open THEN @ + 1 ELSE @,
                           !.past_end = @ \/ (/\ sock_open
                                              /\ rd[1].results.part1
                                                    + udp.udp_message_size > buffer_size)]
    /\ UNCHANGED <<ring, serialize_format, thread_count, name_broadcast_count,
                   last_timestamp_ns, clock, th, frames, ndebug, aborted, assigned,
                   logs_left, call, level>>

\* Lines 99-102: reader.MarkRead(udp_message_size); on false the task is
\* misaligned.
UdpMark ==
    /\ udp.pc = "mark"
    /\ rd' = [rd EXCEPT ![1] = MarkReadOf(rd[1], udp.udp_message_size)]
    /\ udp' = [udp EXCEPT !.pc = "delay",
                          !.buffer_misaligned = @ \/ ~rd'[1].ok]
    /\ UNCHANGED <<buffer_size, buffer, total_write_size, active_writers, callbacks, wr, gh,
                   stream, base, caller, script, writes_left, calls_left,
                   serialize_format, thread_count, name_broadcast_count, last_timestamp_ns,
                   clock, th, frames, ndebug, aborted, assigned, logs_left, call, level>>

\* Line 120: vTaskDelay, and the next turn of the loop.
UdpDelay ==
    /\ udp.pc = "delay"
    /\ udp' = [udp EXCEPT !.pc = "peek"]
    /\ UNCHANGED <<ring, serialize_format, thread_count, name_broadcast_count,
                   last_timestamp_ns, clock, th, frames, ndebug, aborted, assigned,
                   logs_left, call, level>>

\* A program that logs before and after it calls min_logger_init_udp with a
\* packet size its assertions accept; the task starts at any time.
InitUdp ==
    /\ InitRing(UdpBufferSize, 0, "udp", <<>>, MaxUdpWrites, 0)
    /\ serialize_format = "text"
    /\ thread_count = 0
    /\ name_broadcast_count = 0
    /\ last_timestamp_ns = 0
    /\ clock = 0
    /\ th = [t \in Threads |-> IdleThread]
    /\ frames = <<>>
    /\ ndebug \in BOOLEAN
    /\ aborted = FALSE
    /\ assigned = <<>>
    /\ logs_left = 0
    /\ call = NoCall
    /\ level = MIN_LOGGER_DEFAULT_LEVEL
    /\ \E packet_size \in PacketSizes(UdpBufferSize) : udp = NewTask(packet_size)

UdpStep ==
    \/ \E len \in UdpWriteLens : UdpWrite(len)
    \/ UdpConstruct
    \/ UdpPeek
    \/ UdpCheck
    \/ UdpRealign
    \/ UdpSend
    \/ UdpMark
    \/ UdpDelay

SpecUdp == InitUdp /\ [][UdpStep]_vars

\* C36 as the spec states it: when the task has peeked at least
\* udp_message_size bytes and is not flagged misaligned, the first part holds
\* at least udp_message_size bytes (the assertion of line 82 holds).
C36_AsStated ==
    (/\ udp.pc = "check"
     /\ ~udp.buffer_misaligned
     /\ Size(rd[1].results) >= udp.udp_message_size)
    => ~Torn(rd[1].results, udp.udp_message_size)

\* ---- C37
\* Every call the program makes has returned.
LoggerDone == logs_left = 0 /\ \A t \in Threads : th[t].pc = "idle"

\* C37 as the spec states it: a thread that logs after a
\* min_logger_write_thread_names it has not answered yet sends its name
\* after that request: when the program has made its calls, every user frame
\* of a thread that owed its name is followed, from the start of its log
\* call on, by a thread name frame of that thread.
C37_AsStated ==
    LoggerDone =>
        \A i \in DOMAIN frames :
            (IsUserFrame(frames[i]) /\ frames[i].owed) =>
                \E j \in (frames[i].since + 1)..Len(frames) :
                    /\ frames[j].by = frames[i].by
                    /\ IsNameFrame(frames[j])

\* ---- C38
\* Steps on which the exchange of the micro serializer is made by thread t.
Exchanges(t) == th[t].pc = "exchange" /\ th'[t].pc = "thread_idx"

\* C38 (amended): with a clock that never goes back, last_timestamp_ns holds
\* a reading of the clock that is not in the future; it changes with an
\* exchange only, and decreases only with the exchange of a call that read
\* the clock before the call whose reading it replaces, and that call's
\* elapsed time is 0; an elapsed time above 0 comes with an increase.
C38_CellDecreasesWithZero ==
    [][/\ clock' >= clock
       /\ last_timestamp_ns' <= clock'
       /\ last_timestamp_ns' # last_timestamp_ns => \E t \in Threads : Exchanges(t)
       /\ \A t \in Threads :
            Exchanges(t) =>
                /\ last_timestamp_ns' < last_timestamp_ns =>
                        /\ th[t].now < last_timestamp_ns
                        /\ th'[t].elapsed_ns = 0
                /\ th'[t].elapsed_ns > 0 => last_timestamp_ns' > last_timestamp_ns]_vars

\* C38 as the spec states it: last_timestamp_ns never decreases from one
\* exchange to the next.
C38_AsStated == [][last_timestamp_ns' >= last_timestamp_ns]_vars

\* Two threads are in the micro serializer: one read the clock at 2 and
\* exchanged, the other had read it at 1 and exchanged after it, which took
\* the cell back from 2 to 1 with an elapsed time of 0.
C38_Witness ==
    \E t, u \in Threads :
        /\ serialize_format = "micro"
        /\ th[t].pc \in {"thread_idx", "write"}
        /\ th[u].pc \in {"thread_idx", "write"}
        /\ th[t].now = 1
        /\ th[u].now = 2
        /\ last_timestamp_ns = 1
        /\ th[t].elapsed_ns = 0

\* ---- C39
\* C39 as the spec states it: a PeekAvailable made with exactly buffer_size_
\* bytes unread returns true, calls no overflow function and returns
\* buffer_size_ bytes, the last ones written; and a PeekAvailable returns
\* false only with more than buffer_size_ bytes unread.
C39_AsStated ==
    [][\A r \in Readers :
        PeekReturns(r) =>
            /\ Unread(r) = buffer_size =>
                /\ rd'[r].ok
                /\ rd'[r].cb = <<>>
                /\ Size(rd'[r].results) = buffer_size
                /\ ReturnedBytes(r)' = Written(TrueTotal - buffer_size, TrueTotal)
            /\ ~rd'[r].ok => Unread(r) > buffer_size]_vars

====
